---- MODULE Spec2Model ----
(***************************************************************************)
(* State-machine model of the crawler pipeline:                            *)
(*   crawler/storage.py     CrawlerStorage   (SQLite tables, transactions) *)
(*   crawler/transformer.py NuriDataTransformer, validate_notice_dto       *)
(*   crawler/crawler.py     NuriCrawler      (page loop, per-notice guard) *)
(*   crawler/client.py      NuriAPIClient    (retrying request)            *)
(*                                                                         *)
(* Spec       : sequential pipeline runs against one store                 *)
(* SpecPages  : the same runs over three pages of well-formed records      *)
(* SpecShapes : one-page runs over every shape of list response            *)
(* SpecClient : one retrying request of the network client                 *)
(* SpecDates  : _normalize_date applied to a date string, and to its result *)
(* SpecEnrich : enrich_with_detail applied to a record and a detail payload *)
(* SpecChange : one-page runs over an upstream that changes between runs   *)
(* SpecRace   : two runs at the record step on one store, statement by     *)
(*              statement                                                  *)
(***************************************************************************)
EXTENDS Integers, Sequences, FiniteSets, TLC

(***************************************************************************)
(* Bounds of the model                                                     *)
(***************************************************************************)
MaxRuns == 2          \* pipeline runs against the same store
MaxPages == 2         \* largest max_pages a configuration asks for
MaxNotices == 2       \* longest list a page answers with
MaxRetriesCfg == 5    \* largest max_retries a client is constructed with
LongRunPages == 3     \* max_pages of the runs of SpecPages

(***************************************************************************)
(* Program constants                                                       *)
(***************************************************************************)
MAX_RETRIES == 3
RETRY_BACKOFF_BASE == 2
RETRY_BACKOFF_MAX == 10
RATE_LIMIT_WAIT == 60

\* transformer.py:83 / :160, the placeholder title '제목없음'
NO_TITLE == "NO_TITLE"

VARIABLES
    \* ---- CrawlerStorage: the durable (committed) content of the database
    nuri_notices,     \* table nuri_notices, in row order
    scrap_log,        \* table scrap_log, in row order
    crawl_sessions,   \* table crawl_sessions, row i has id i
    \* ---- environment
    upstream,         \* page number -> what the list endpoint answers for that
                      \* page (the same in every run), once it has been asked
    config,           \* the CrawlerConfig every run is started with
    \* ---- NuriCrawler, one run
    pc,               \* "idle" | "page" | "notice" | "returned" | "raised" | "killed"
    run,              \* number of runs started so far
    session_id,       \* the id start_session returned to this run
    page,             \* loop variable of run_with_config
    raw_notices,      \* the list _process_page iterates over
    idx,              \* loop variable of _process_page (1-based)
    stats,            \* CrawlerStats
    collected_notices,\* the list run_with_config returns
    \* ---- history (not program state)
    last,             \* the latest notice of the page: the calls _process_notice
                      \* made for it, what the detail endpoint and the store
                      \* answered, how save ended
    ever_saved,       \* ids for which save_notice has committed
    snap,             \* the two tables as they were when this run started
    prev,             \* how the previous run ended and whether a save failed in
                      \* it, and whether a save has failed in this run
    trace,            \* the calls and exceptions of this run, see TraceNone
    \* ---- NuriAPIClient, one _make_request
    c_max,            \* self.max_retries
    c_pc,             \* "ready" | "loop" | "returned" | "raised"
    c_attempt,        \* loop variable attempt of the latest iteration
    c_log,            \* per send: the answer, and the sleep that followed it
    c_result,         \* "none" | "null" | "body" | "NonRetryableAPIError"
    \* ---- NuriDataTransformer, one call of one of its methods
    f_pc,             \* "idle" | "call" | "returned" | "again"
    f_arg,            \* the argument(s) of the call
    f_ret,            \* what the latest call returned
    f_ret0,           \* what the call before it returned
    \* ---- two pipeline runs at the same record step on one store
    t_mode,           \* "shared": the runs are threads of one CrawlerStorage
                      \* (one connection); "separate": each has its own
    t_pc,             \* worker -> position in _process_notice / save_notice
    t_id,             \* worker -> notice_id of the record it processes
    t_pending         \* connection -> the tables as its open transaction has
                      \* them, or NoTx

store_vars == <<nuri_notices, scrap_log, crawl_sessions>>
run_vars == <<pc, run, session_id, page, raw_notices, idx, stats, collected_notices>>
hist_vars == <<last, ever_saved, snap, prev, trace>>
client_vars == <<c_max, c_pc, c_attempt, c_log, c_result>>
fn_vars == <<f_pc, f_arg, f_ret, f_ret0>>
pipeline_vars == <<store_vars, upstream, config, run_vars, hist_vars>>
race_vars == <<t_mode, t_pc, t_id, t_pending>>
vars == <<pipeline_vars, client_vars, fn_vars, race_vars>>

(***************************************************************************)
(* Values                                                                  *)
(***************************************************************************)
Ids == {"a", "b"}

\* A list entry that is not a JSON object (a string, a number): it has no
\* .get, so every field access raises AttributeError.
NotADict == [id |-> "<str>", title |-> "<str>"]

\* A raw list entry: id "" stands for an entry in which no identifier field
\* resolves, title "" for one without a title field.
RawNotices ==
    { NotADict,
      [id |-> "",  title |-> "T"],
      [id |-> "a", title |-> "T"],
      [id |-> "a", title |-> ""],
      [id |-> "b", title |-> "T"] }

RECURSIVE SeqsUpTo(_, _)
SeqsUpTo(S, n) ==
    IF n = 0 THEN {<<>>}
    ELSE LET shorter == SeqsUpTo(S, n - 1)
         IN shorter \cup { Append(s, x) : s \in { t \in shorter : Len(t) = n - 1 }, x \in S }

\* What fetch_notice_list hands to _process_page: None (retries exhausted),
\* a raised NonRetryableAPIError, or the parsed JSON body. A body is a dict
\* (fields: key -> value, a value being a list or not) or a bare list.
NullResponse == [kind |-> "null", fields |-> <<>>, items |-> <<>>]
RaiseResponse == [kind |-> "raise", fields |-> <<>>, items |-> <<>>]
DictResponse(key, islist, l) ==
    [kind |-> "dict", fields |-> (key :> [islist |-> islist, items |-> l]),
     items |-> <<>>]
EmptyDictResponse == [kind |-> "dict", fields |-> <<>>, items |-> <<>>]
ListResponse(l) == [kind |-> "list", fields |-> <<>>, items |-> l]

\* A page the list endpoint has not been asked for yet
Unasked == [kind |-> "unasked", fields |-> <<>>, items |-> <<>>]

\* The answers of the list endpoint under Spec: a failed fetch, a raising
\* fetch, or a body with the list under 'result'.
PageResponses ==
    { NullResponse, RaiseResponse }
    \cup { DictResponse("result", TRUE, l) : l \in SeqsUpTo(RawNotices, MaxNotices) }

DetailOutcomes == {"payload", "null", "raise"}
\* save_notice: both writes succeed, the first or the second write raises, or
\* the process is stopped between the two writes.
SaveOutcomes == {"ok", "fail_notice", "fail_log", "interrupt"}

None == [none |-> TRUE]
\* An exception leaving the call
Raised == [raised |-> TRUE]

(***************************************************************************)
(* CrawlerStorage (crawler/storage.py)                                     *)
(***************************************************************************)
\* The durable database as one value, so that a transaction can work on a
\* copy and either install it or drop it.
Db(n, l) == [nuri_notices |-> n, scrap_log |-> l]

RowsOf(table, id) == SelectSeq(table, LAMBDA r : r.notice_id = id)
Count(table, id) == Len(RowsOf(table, id))

\* INSERT into a table without a uniqueness constraint: the row is added
\* whatever the table holds.
InsertPlain(table, row) == Append(table, row)

\* INSERT OR REPLACE on a table whose notice_id is PRIMARY KEY / UNIQUE: the
\* conflicting row is deleted and the new row is inserted (at the end of the
\* row order).
InsertOrReplace(table, row) ==
    SelectSeq(table, LAMBDA r : r.notice_id # row.notice_id) \o <<row>>

\* `with self.conn:` leaving through an exception, or a connection that dies
\* with a transaction open: the working copy is dropped.
KeepUncommitted(before, working) == working
Rollback(before, working) == before

\* `with self.conn:` leaving normally.
Commit(before, working) == working

is_already_done_Never(log, notice_id) == FALSE
\* The query without `AND status = 'SUCCESS'`
is_already_done_AnyStatus(log, notice_id) ==
    \E i \in 1..Len(log) : log[i].notice_id = notice_id
is_already_done(log, notice_id) ==
    \E i \in 1..Len(log) :
        log[i].notice_id = notice_id /\ log[i].status = "SUCCESS"

log_error_Nothing(db, notice_id, now) == db
log_error(db, notice_id, now) ==
    Commit(db, [db EXCEPT !.scrap_log =
        InsertOrReplace(@, [notice_id |-> notice_id, status |-> "FAILED",
                            collected_at |-> now])])

NoticeRow(data, now) ==
    [notice_id |-> data.notice_id, title |-> data.title,
     detail |-> data.detail, created_at |-> now]

\* save_notice without `with self.conn`: each write is committed when it is
\* made, so a failure of the second write leaves the first in the table
save_notice_Autocommit(db, data, outcome, now) ==
    LET w1 == [db EXCEPT !.nuri_notices = InsertOrReplace(@, NoticeRow(data, now))]
        w2 == [w1 EXCEPT !.scrap_log =
                  InsertOrReplace(@, [notice_id |-> data.notice_id,
                                      status |-> "SUCCESS", collected_at |-> now])]
    IN CASE outcome = "ok" ->
              [db |-> Commit(db, w2), raised |-> FALSE, killed |-> FALSE]
         [] outcome = "fail_notice" ->
              [db |-> log_error(db, data.notice_id, now),
               raised |-> TRUE, killed |-> FALSE]
         [] outcome = "fail_log" ->
              [db |-> log_error(w1, data.notice_id, now),
               raised |-> TRUE, killed |-> FALSE]
         [] OTHER ->
              [db |-> w1, raised |-> FALSE, killed |-> TRUE]
\* save_notice(data): the database afterwards, whether the call raised, and
\* whether the process was stopped inside it.
save_notice(db, data, outcome, now) ==
    LET w1 == [db EXCEPT !.nuri_notices = InsertOrReplace(@, NoticeRow(data, now))]
        w2 == [w1 EXCEPT !.scrap_log =
                  InsertOrReplace(@, [notice_id |-> data.notice_id,
                                      status |-> "SUCCESS", collected_at |-> now])]
    IN CASE outcome = "ok" ->
              [db |-> Commit(db, w2), raised |-> FALSE, killed |-> FALSE]
         [] outcome = "fail_notice" ->
              [db |-> log_error(Rollback(db, db), data.notice_id, now),
               raised |-> TRUE, killed |-> FALSE]
         [] outcome = "fail_log" ->
              [db |-> log_error(Rollback(db, w1), data.notice_id, now),
               raised |-> TRUE, killed |-> FALSE]
         [] OTHER ->
              [db |-> Rollback(db, w1), raised |-> FALSE, killed |-> TRUE]

\* get_count, get_success_count and get_stats
get_count(db) == Len(db.nuri_notices)

get_success_count(db) ==
    Len(SelectSeq(db.scrap_log, LAMBDA r : r.status = "SUCCESS"))

get_stats(db) ==
    [total_notices |-> get_count(db),
     successful |-> get_success_count(db),
     failed |-> Len(SelectSeq(db.scrap_log, LAMBDA r : r.status = "FAILED"))]

start_session(sessions, now) ==
    Append(sessions, [started_at |-> now, finished_at |-> 0,
                      total_found |-> 0, total_collected |-> 0,
                      total_skipped |-> 0, total_errors |-> 0,
                      status |-> "RUNNING"])

\* dict.get(key, default)
Get(d, key, default) == IF key \in DOMAIN d THEN d[key] ELSE default

finish_session(sessions, sid, st, now) ==
    [i \in 1..Len(sessions) |->
        IF i = sid
        THEN [sessions[i] EXCEPT !.finished_at = now,
                                 !.total_found = Get(st, "found", 0),
                                 !.total_collected = Get(st, "collected", 0),
                                 !.total_skipped = Get(st, "skipped", 0),
                                 !.total_errors = Get(st, "errors", 0),
                                 !.status = "COMPLETED"]
        ELSE sessions[i]]

(***************************************************************************)
(* NuriDataTransformer, validate_notice_dto (crawler/transformer.py)       *)
(***************************************************************************)
\* a or b, for strings: the first operand unless it is empty
Or(a, b) == IF a # "" THEN a ELSE b

is_valid(dto) == dto.notice_id # "" /\ dto.title # ""

\* transform_notice raising for an entry without an identifier
transform_notice_NoIdRaises(raw) ==
    IF raw = NotADict \/ raw.id = "" THEN Raised
    ELSE [notice_id |-> raw.id, title |-> Or(raw.title, NO_TITLE), detail |-> FALSE]
\* The handler of lines 97 to 99 reads raw_notice.get(...) for its log line:
\* for an entry without .get the AttributeError of the try body is followed
\* by one in the handler, which leaves transform_notice.
transform_notice(raw) ==
    IF raw = NotADict THEN Raised
    ELSE IF raw.id = "" THEN None
    ELSE LET dto == [notice_id |-> raw.id,
                     title |-> Or(raw.title, NO_TITLE),
                     detail |-> FALSE]
         IN IF is_valid(dto) THEN dto ELSE None

enrich_with_detail(dto) == [dto EXCEPT !.detail = TRUE]

\* JSON values as enrich_with_detail meets them: a string, or null (None)
JStr(text) == [str |-> text]
JNull == [null |-> TRUE]
\* str(value)
Str(value) == IF value = JNull THEN "None" ELSE value.str
\* `not value`
Falsy(value) == value = JNull \/ value = JStr("")

\* A dict is [isdict |-> TRUE, entries |-> key -> value]; NotADictPayload is a
\* detail payload of another type, NoRawData is raw_data = None.
Dict(entries) == [isdict |-> TRUE, entries |-> entries]
NotADictPayload == [isdict |-> FALSE, entries |-> <<>>]
NoRawData == [isdict |-> FALSE, entries |-> <<>>]

\* d[key] = value
SetItem(d, key, value) ==
    Dict([k \in DOMAIN d.entries \cup {key} |->
            IF k = key THEN value ELSE d.entries[k]])

\* enrich_with_detail (lines 106 to 120) on the fields of the DTO it reads or
\* writes, with notice_id, title and due_date standing for the others
enrich_with_detail_fields(notice_dto, detail_data) ==
    IF ~detail_data.isdict THEN notice_dto
    ELSE LET budget ==
               IF notice_dto.budget = "" /\ "bscAmt" \in DOMAIN detail_data.entries
               THEN Str(detail_data.entries["bscAmt"])
               ELSE notice_dto.budget
             demand_company ==
               IF Falsy(notice_dto.demand_company)
                  /\ "dmndComp" \in DOMAIN detail_data.entries
               THEN detail_data.entries["dmndComp"]
               ELSE notice_dto.demand_company
             raw_data ==
               IF notice_dto.raw_data # NoRawData
               THEN SetItem(notice_dto.raw_data, "detail", detail_data)
               ELSE notice_dto.raw_data
         IN [notice_dto EXCEPT !.budget = budget,
                               !.demand_company = demand_company,
                               !.raw_data = raw_data]

\* A string is the sequence of its characters. NoDate is Python's None where
\* a date string is expected.
NoDate == <<"None">>

\* str.replace(ch, '')
Remove(str, ch) == SelectSeq(str, LAMBDA c : c # ch)

\* str.split(' ')[0]: what stands before the first space
FirstField(str) ==
    LET spaces == { i \in 1..Len(str) : str[i] = " " }
    IN IF spaces = {} THEN str
       ELSE SubSeq(str, 1, (CHOOSE i \in spaces : \A j \in spaces : i <= j) - 1)

\* _normalize_date (lines 138 to 144)
normalize_date(date_str) ==
    IF date_str = <<>> \/ date_str = NoDate THEN NoDate
    ELSE LET clean_date == FirstField(Remove(Remove(date_str, "/"), "-"))
         IN IF Len(clean_date) = 8
            THEN SubSeq(clean_date, 1, 4) \o <<"-">> \o SubSeq(clean_date, 5, 6)
                     \o <<"-">> \o SubSeq(clean_date, 7, 8)
            ELSE date_str

\* TRUE when no ValidationError is raised
validate_notice_dto_NoTitleRule(dto) == dto.notice_id # ""
validate_notice_dto(dto) ==
    /\ dto.notice_id # ""
    /\ dto.title # "" /\ dto.title # NO_TITLE
    /\ ~(Len(dto.notice_id) < 1)

\* transformer.py:45
LIST_KEYS == <<"result", "list", "resultList", "data", "rows">>

\* Python truthiness of a fetch result (`if not response`)
Truthy(response) ==
    CASE response.kind = "dict" -> DOMAIN response.fields # {}
      [] response.kind = "list" -> response.items # <<>>
      [] OTHER -> FALSE

\* extract_notices taking the first of the keys that is present, whatever its
\* value is
extract_notices_FirstPresentKey(response) ==
    IF response.kind # "dict" THEN <<>>
    ELSE LET hits == { i \in 1..Len(LIST_KEYS) :
                         LIST_KEYS[i] \in DOMAIN response.fields }
         IN IF hits # {}
            THEN response.fields[LIST_KEYS[CHOOSE i \in hits : \A j \in hits : i <= j]].items
            ELSE <<>>
\* Lines 52 to 67: a response that is not a dict returns [] at line 54, so
\* the test of line 63 is only reached by a dict and is never true.
extract_notices(response) ==
    IF response.kind # "dict" THEN <<>>
    ELSE LET hits == { i \in 1..Len(LIST_KEYS) :
                         /\ LIST_KEYS[i] \in DOMAIN response.fields
                         /\ response.fields[LIST_KEYS[i]].islist }
         IN IF hits # {}
            THEN response.fields[LIST_KEYS[CHOOSE i \in hits : \A j \in hits : i <= j]].items
            ELSE <<>>

(***************************************************************************)
(* NuriCrawler (crawler/crawler.py)                                        *)
(***************************************************************************)
CrawlerStats ==
    [total_found |-> 0, total_collected |-> 0, total_skipped |-> 0,
     total_errors |-> 0, pages_processed |-> 0, pages_failed |-> 0]

to_dict(st) ==
    [total_found |-> st.total_found, total_collected |-> st.total_collected,
     total_skipped |-> st.total_skipped, total_errors |-> st.total_errors,
     pages_processed |-> st.pages_processed, pages_failed |-> st.pages_failed]

Inc(st, field) == [st EXCEPT ![field] = @ + 1]

\* __post_init__ without the upper limit of records_per_page
ConfigValid_NoUpperLimit(cfg) ==
    /\ ~(cfg.max_pages < 1)
    /\ ~(cfg.records_per_page < 1)
\* CrawlerConfig.__post_init__: TRUE when no ValueError is raised
ConfigValid(cfg) ==
    /\ ~(cfg.max_pages < 1)
    /\ ~(cfg.records_per_page < 1 \/ cfg.records_per_page > 100)

\* _fetch_and_enrich_detail without its `except Exception`: what the detail
\* fetch raises leaves the function
fetch_and_enrich_detail_Unguarded(dto, detail) ==
    CASE detail = "payload" ->
           [dto |-> enrich_with_detail(dto), raised |-> FALSE,
            ops |-> <<"fetch_notice_detail", "enrich_with_detail", "sleep">>]
      [] detail = "null" ->
           [dto |-> dto, raised |-> FALSE,
            ops |-> <<"fetch_notice_detail", "sleep">>]
      [] OTHER ->
           [dto |-> dto, raised |-> TRUE, ops |-> <<"fetch_notice_detail">>]
\* _fetch_and_enrich_detail: the DTO afterwards, the calls made, and whether
\* an exception leaves the function (never: lines 275 and 276 catch every
\* Exception). The time.sleep of line 273 is the last statement of the try
\* body, so a fetch that raises goes to the handler without it.
fetch_and_enrich_detail(dto, detail) ==
    CASE detail = "payload" ->
           [dto |-> enrich_with_detail(dto), raised |-> FALSE,
            ops |-> <<"fetch_notice_detail", "enrich_with_detail", "sleep">>]
      [] detail = "null" ->
           [dto |-> dto, raised |-> FALSE,
            ops |-> <<"fetch_notice_detail", "sleep">>]
      [] OTHER ->
           [dto |-> dto, raised |-> FALSE, ops |-> <<"fetch_notice_detail">>]

\* _save_notice: counts, and re-raises what save_notice raised
save_notice_counted(dto, st, db, outcome, now) ==
    LET r == save_notice(db, dto, outcome, now)
    IN [db |-> r.db, killed |-> r.killed, raised |-> r.raised,
        stats |-> IF r.killed THEN st
                  ELSE IF r.raised THEN Inc(st, "total_errors")
                  ELSE Inc(st, "total_collected")]

Result(st, db, coll, ops, raised, killed, save) ==
    [stats |-> st, db |-> db, collected |-> coll, ops |-> ops,
     raised |-> raised, killed |-> killed, save |-> save]

\* Steps 4 to 6 with the append to the result list made before the save
process_notice_tail_AppendsFirst(dto, ops, st, db, coll, outcome, now) ==
    LET ops1 == ops \o <<"validate_notice_dto">>
    IN IF ~validate_notice_dto(dto)
       THEN Result(Inc(st, "total_errors"), db, coll, ops1, FALSE, FALSE, "none")
       ELSE
         LET s == save_notice_counted(dto, st, db, outcome, now)
             ops2 == ops1 \o <<"save_notice">>
         IN IF s.killed
            THEN Result(s.stats, s.db, coll, ops2, FALSE, TRUE, "killed")
            ELSE IF s.raised
            THEN Result(s.stats, s.db, Append(coll, dto), ops2, TRUE, FALSE, "raised")
            ELSE Result(s.stats, s.db, Append(coll, dto), ops2, FALSE, FALSE, "ok")
\* Steps 4 to 6 with a rejected record written to the ledger as FAILED
process_notice_tail_LogsRejected(dto, ops, st, db, coll, outcome, now) ==
    LET ops1 == ops \o <<"validate_notice_dto">>
    IN IF ~validate_notice_dto(dto)
       THEN Result(Inc(st, "total_errors"), log_error(db, dto.notice_id, now),
                   coll, ops1, FALSE, FALSE, "none")
       ELSE
         LET s == save_notice_counted(dto, st, db, outcome, now)
             ops2 == ops1 \o <<"save_notice">>
         IN IF s.killed
            THEN Result(s.stats, s.db, coll, ops2, FALSE, TRUE, "killed")
            ELSE IF s.raised
            THEN Result(s.stats, s.db, coll, ops2, TRUE, FALSE, "raised")
            ELSE Result(s.stats, s.db, Append(coll, dto), ops2, FALSE, FALSE, "ok")
\* Steps 4 to 6 of _process_notice (lines 237 to 249): the validation gate,
\* the save and the append to the result list
process_notice_tail(dto, ops, st, db, coll, outcome, now) ==
    LET ops1 == ops \o <<"validate_notice_dto">>
    IN IF ~validate_notice_dto(dto)
       THEN Result(Inc(st, "total_errors"), db, coll, ops1, FALSE, FALSE, "none")
       ELSE
         LET s == save_notice_counted(dto, st, db, outcome, now)
             ops2 == ops1 \o <<"save_notice">>
         IN IF s.killed
            THEN Result(s.stats, s.db, coll, ops2, FALSE, TRUE, "killed")
            ELSE IF s.raised
            THEN Result(s.stats, s.db, coll, ops2, TRUE, FALSE, "raised")
            ELSE Result(s.stats, s.db, Append(coll, dto), ops2, FALSE, FALSE, "ok")

\* _process_notice with the detail fetch made before the checkpoint is asked
process_notice_body_DetailFirst(raw, st, db, coll, cfg, detail, outcome, now) ==
    LET dto0 == transform_notice(raw)
    IN IF dto0 = Raised
       THEN Result(st, db, coll, <<"transform_notice">>, TRUE, FALSE, "none")
       ELSE IF dto0 = None
       THEN Result(Inc(st, "total_skipped"), db, coll, <<"transform_notice">>,
                   FALSE, FALSE, "none")
       ELSE
         LET d == IF cfg.fetch_details
                  THEN fetch_and_enrich_detail(dto0, detail)
                  ELSE [dto |-> dto0, raised |-> FALSE, ops |-> <<>>]
             ops0 == <<"transform_notice">> \o d.ops \o <<"is_already_done">>
         IN IF d.raised
            THEN Result(st, db, coll, <<"transform_notice">> \o d.ops,
                        TRUE, FALSE, "none")
            ELSE IF is_already_done(db.scrap_log, dto0.notice_id)
            THEN Result(Inc(st, "total_skipped"), db, coll, ops0, FALSE, FALSE, "none")
            ELSE process_notice_tail(d.dto, ops0, st, db, coll, outcome, now)

\* The try body of _process_notice (lines 219 to 249)
process_notice_body(raw, st, db, coll, cfg, detail, outcome, now) ==
    LET dto0 == transform_notice(raw)
    IN IF dto0 = Raised
       THEN Result(st, db, coll, <<"transform_notice">>, TRUE, FALSE, "none")
       ELSE IF dto0 = None
       THEN Result(Inc(st, "total_skipped"), db, coll, <<"transform_notice">>,
                   FALSE, FALSE, "none")
       ELSE IF is_already_done(db.scrap_log, dto0.notice_id)
       THEN Result(Inc(st, "total_skipped"), db, coll,
                   <<"transform_notice", "is_already_done">>, FALSE, FALSE, "none")
       ELSE
         LET d == IF cfg.fetch_details
                  THEN fetch_and_enrich_detail(dto0, detail)
                  ELSE [dto |-> dto0, raised |-> FALSE, ops |-> <<>>]
             ops0 == <<"transform_notice", "is_already_done">> \o d.ops
         IN IF d.raised
            THEN Result(st, db, coll, ops0, TRUE, FALSE, "none")
            ELSE process_notice_tail(d.dto, ops0, st, db, coll, outcome, now)

\* _process_notice without its `except Exception`
process_notice_Unguarded(raw, st, db, coll, cfg, detail, outcome, now) ==
    process_notice_body(raw, st, db, coll, cfg, detail, outcome, now)
\* _process_notice: the body under `except Exception` (lines 251 to 253)
process_notice(raw, st, db, coll, cfg, detail, outcome, now) ==
    LET r == process_notice_body(raw, st, db, coll, cfg, detail, outcome, now)
    IN IF r.raised
       THEN [r EXCEPT !.stats = Inc(@, "total_errors"), !.raised = FALSE]
       ELSE r

(***************************************************************************)
(* The pipeline as a state machine                                         *)
(***************************************************************************)
LastNone ==
    [notice_id |-> "", title |-> "", ops |-> <<>>, detail |-> "-",
     answer |-> "-", save |-> "none",
     failed |-> "none", errors |-> 0]

\* What has happened in the run so far: calls of start_session, the calls of
\* finish_session with their arguments and outcome, the pages fetched with
\* the number of _process_notice calls made for each, the kinds of record
\* failure met, the exception that escaped the guards of the page loop, and
\* the exception the run raised to its caller; page_delays holds the pages
\* after which the loop of run_with_config slept; saved holds, in order, what
\* the rows written by the saves that succeeded contain.
TraceNone ==
    [start_calls |-> 0, finish_log |-> <<>>, page_log |-> <<>>,
     page_delays |-> <<>>,
     failed_kinds |-> {}, saved |-> <<>>,
     escaped |-> "none", propagated |-> "none"]

\* Configurations a run is started with under Spec: the default page size
\* with every page count and detail setting, the two limits of the page size,
\* and configurations just outside each limit.
Configs ==
    [max_pages : 1..MaxPages, records_per_page : {10}, fetch_details : BOOLEAN]
    \cup [max_pages : {1}, records_per_page : {1, 100}, fetch_details : {FALSE}]
    \cup [max_pages : {0, -1}, records_per_page : {10}, fetch_details : {TRUE}]
    \cup [max_pages : {1}, records_per_page : {0, 101}, fetch_details : {TRUE}]

\* The two runs that may work on one store at the same time
Workers == {1, 2}

\* A connection without an open transaction
NoTx == [none |-> TRUE]

\* No second run is at work on the store
WorkersIdle ==
    /\ t_mode = "shared"
    /\ t_pc = [w \in Workers |-> "idle"]
    /\ t_id = [w \in Workers |-> ""]
    /\ t_pending = [c \in Workers |-> NoTx]

\* No method of the transformer is being followed on its own
TransformerIdle ==
    /\ f_pc = "idle"
    /\ f_arg = <<>>
    /\ f_ret = <<>>
    /\ f_ret0 = <<>>

ClientIdle ==
    /\ c_max = MAX_RETRIES
    /\ c_pc = "ready"
    /\ c_attempt = 0
    /\ c_log = <<>>
    /\ c_result = "none"

\* A crawler that has not run yet, on an empty database
CrawlerIdle ==
    /\ nuri_notices = <<>>
    /\ scrap_log = <<>>
    /\ crawl_sessions = <<>>
    /\ pc = "idle"
    /\ run = 0
    /\ session_id = 0
    /\ page = 0
    /\ raw_notices = <<>>
    /\ idx = 0
    /\ stats = CrawlerStats
    /\ collected_notices = <<>>
    /\ last = LastNone
    /\ ever_saved = {}
    /\ snap = Db(<<>>, <<>>)
    /\ prev = [ended |-> "none", save_failed |-> FALSE, failing |-> FALSE]
    /\ trace = TraceNone

Init ==
    /\ CrawlerIdle
    /\ config \in Configs
    /\ upstream = [p \in 1..MaxPages |-> Unasked]
    /\ ClientIdle
    /\ TransformerIdle
    /\ WorkersIdle

\* The store's answer to a finish_session call
FinishOutcomes == {"ok", "raise"}

\* finish_session(session_id, stats) when the store answers f: the UPDATE runs
\* in its own transaction, so a failing call leaves the row as it was.
finish_session_call(sessions, sid, st, now, f) ==
    IF f = "ok" THEN Commit(sessions, finish_session(sessions, sid, st, now))
    ELSE Rollback(sessions, finish_session(sessions, sid, st, now))

FinishCall(f) == [sid |-> session_id, stats |-> to_dict(stats), outcome |-> f]

\* The handler of run_with_config (lines 156 to 160) for the exception exc
\* that left the try body: finish_session, then `raise` of the same
\* exception, unless finish_session raises one of its own.
run_with_config_except(exc, f) ==
    /\ crawl_sessions' = finish_session_call(crawl_sessions, session_id,
                                             to_dict(stats), run, f)
    /\ trace' = [trace EXCEPT
                    !.finish_log = Append(@, FinishCall(f)),
                    !.escaped = exc,
                    !.propagated = IF f = "ok" THEN exc ELSE "finish_session:159"]
    /\ pc' = "raised"
    /\ page' = 0

\* TRUE when every finish_session call of the run so far was answered ok
FinishAnsweredOk ==
    \A i \in 1..Len(trace.finish_log) : trace.finish_log[i].outcome = "ok"

\* run() up to the page loop: CrawlerConfig(...), the stats reset and
\* start_session. A ValueError of the configuration leaves before any of it.
\* Bound of the model: no further run is started after a run in which the
\* store failed a finish_session call (the crawler never reads
\* crawl_sessions, so such a run would go as after a finished session).
StartRun ==
    /\ pc \in {"idle", "returned", "raised", "killed"}
    /\ run < MaxRuns
    /\ FinishAnsweredOk
    /\ run' = run + 1
    /\ last' = LastNone
    /\ prev' = [ended |-> IF run = 0 THEN "none" ELSE pc,
                save_failed |-> prev.failing, failing |-> FALSE]
    /\ snap' = Db(nuri_notices, scrap_log)
    /\ IF ~ConfigValid(config)
       THEN /\ pc' = "raised"
            /\ trace' = [TraceNone EXCEPT !.propagated = "ValueError"]
            /\ UNCHANGED <<store_vars, session_id, page, raw_notices, idx,
                           stats, collected_notices>>
       ELSE /\ pc' = "page"
            /\ collected_notices' = <<>>
            /\ stats' = CrawlerStats
            /\ crawl_sessions' = start_session(crawl_sessions, run')
            /\ session_id' = Len(crawl_sessions')
            /\ trace' = [TraceNone EXCEPT !.start_calls = 1]
            /\ page' = 1
            /\ raw_notices' = <<>>
            /\ idx' = 0
            /\ UNCHANGED <<nuri_notices, scrap_log>>
    /\ UNCHANGED <<upstream, config, ever_saved, client_vars, fn_vars, race_vars>>

\* The upstream is unchanged between runs: a page answers what it answered
\* when it was first asked.
Answers(p) == IF upstream[p] = Unasked THEN PageResponses ELSE {upstream[p]}

\* The for loop of run_with_config broken off at a failed page
after_failed_page_Break(p, max_pages) == max_pages + 1
\* `return` of _process_page at line 185, and the next iteration of the for
\* loop of run_with_config
after_failed_page(p, max_pages) == p + 1

\* Lines 149 to 151 of run_with_config, after _process_page(p) has returned:
\* the pages slept after, with p added unless it is the last page
delay_between_pages(delays, p, max_pages) ==
    IF p < max_pages THEN Append(delays, p) ELSE delays

\* One iteration of the page loop of run_with_config up to the notices:
\* _process_page(page) as far as its own loop. A raising fetch leaves through
\* the except clause of run_with_config, which finishes the session.
ProcessPage ==
    /\ pc = "page"
    /\ page <= config.max_pages
    /\ \E response \in Answers(page) :
       /\ upstream' = [upstream EXCEPT ![page] = response]
       /\ IF response.kind = "raise"
          THEN /\ \E f \in FinishOutcomes :
                    run_with_config_except("NonRetryableAPIError", f)
               /\ UNCHANGED <<stats, raw_notices, idx>>
          ELSE /\ trace' = [trace EXCEPT
                    !.page_log = Append(@, [page |-> page, processed |-> 0]),
                    !.page_delays =
                        IF ~Truthy(response) \/ extract_notices(response) = <<>>
                        THEN delay_between_pages(@, page, config.max_pages)
                        ELSE @]
               /\ IF ~Truthy(response)
                  THEN /\ stats' = Inc(stats, "pages_failed")
                       /\ page' = after_failed_page(page, config.max_pages)
                       /\ UNCHANGED <<pc, crawl_sessions, raw_notices, idx>>
                  ELSE LET found == extract_notices(response)
                       IN IF found = <<>>
                          THEN /\ stats' = Inc(stats, "pages_processed")
                               /\ page' = page + 1
                               /\ UNCHANGED <<pc, crawl_sessions, raw_notices, idx>>
                          ELSE /\ stats' = [Inc(stats, "pages_processed") EXCEPT
                                               !.total_found = @ + Len(found)]
                               /\ raw_notices' = found
                               /\ idx' = 1
                               /\ pc' = "notice"
                               /\ UNCHANGED <<crawl_sessions, page>>
    /\ last' = LastNone
    /\ UNCHANGED <<nuri_notices, scrap_log, config, run, session_id,
                   collected_notices, ever_saved, snap, prev, client_vars, fn_vars, race_vars>>

\* The answers the environment can give while one notice is processed: a
\* detail answer only when the detail fetch is reached, a store answer only
\* when save_notice is reached ("-" when the call is not made).
Reaches(raw, log) ==
    /\ transform_notice(raw) \notin {None, Raised}
    /\ ~is_already_done(log, transform_notice(raw).notice_id)

DetailAnswers(raw, log, cfg) ==
    IF Reaches(raw, log) /\ cfg.fetch_details THEN DetailOutcomes ELSE {"-"}

SaveAnswers(raw, log) ==
    IF Reaches(raw, log) /\ validate_notice_dto(transform_notice(raw))
    THEN SaveOutcomes ELSE {"-"}

\* Which step of _process_notice failed for the record, from the calls made
FailedStep(raw, r) ==
    IF transform_notice(raw) = Raised THEN "normalize"
    ELSE IF r.save = "raised" THEN "persist"
    ELSE IF r.ops[Len(r.ops)] = "validate_notice_dto" THEN "validate"
    ELSE "none"

\* What the row of nuri_notices for notice_id holds of the saved record
written(rows, notice_id) ==
    LET i == CHOOSE j \in 1..Len(rows) : rows[j].notice_id = notice_id
    IN [notice_id |-> rows[i].notice_id, title |-> rows[i].title,
        detail |-> rows[i].detail]

\* The loop over a page's records left after its first record
has_next_notice_FirstOnly(i, total) == FALSE
\* `for idx, raw_notice in enumerate(raw_notices, 1)` (line 200): TRUE when
\* the loop has another record after record i
has_next_notice(i, total) == i < total

\* _process_notice for raw_notices[idx], and the step of the loop around it.
\* The detail fetch answers `detail` when it is made; the store answers
\* `outcome` when save_notice is called.
ProcessNotice ==
    /\ pc = "notice"
    /\ \E detail \in DetailAnswers(raw_notices[idx], scrap_log, config),
          outcome \in SaveAnswers(raw_notices[idx], scrap_log) :
         LET raw == raw_notices[idx]
             r == process_notice(raw, stats, Db(nuri_notices, scrap_log),
                                 collected_notices, config, detail, outcome, run)
             dto == transform_notice(raw)
             failed == FailedStep(raw, r)
             seen == [trace EXCEPT
                         !.page_log[Len(trace.page_log)].processed = @ + 1,
                         !.failed_kinds = @ \cup ({failed} \ {"none"}),
                         !.saved = IF r.save = "ok"
                                   THEN Append(@, written(r.db.nuri_notices,
                                                          dto.notice_id))
                                   ELSE @]
         IN /\ nuri_notices' = r.db.nuri_notices
            /\ scrap_log' = r.db.scrap_log
            /\ prev' = [prev EXCEPT !.failing = @ \/ r.save = "raised"]
            /\ ever_saved' = IF r.save = "ok" THEN ever_saved \cup {dto.notice_id}
                             ELSE ever_saved
            /\ last' = [notice_id |-> raw.id,
                        title |-> IF dto \in {None, Raised} THEN "" ELSE dto.title,
                        ops |-> r.ops, detail |-> detail,
                        answer |-> outcome, save |-> r.save,
                        failed |-> failed,
                        errors |-> r.stats.total_errors - stats.total_errors]
            /\ IF r.killed
               THEN /\ pc' = "killed"
                    /\ stats' = CrawlerStats
                    /\ collected_notices' = <<>>
                    /\ raw_notices' = <<>>
                    /\ idx' = 0
                    /\ page' = 0
                    /\ trace' = [seen EXCEPT !.page_log = <<>>, !.page_delays = <<>>,
                                              !.failed_kinds = {}, !.saved = <<>>]
                    /\ UNCHANGED crawl_sessions
               ELSE IF r.raised
               THEN \* the exception left _process_notice and _process_page
                    /\ stats' = r.stats
                    /\ collected_notices' = r.collected
                    /\ \E f \in FinishOutcomes :
                         /\ crawl_sessions' = finish_session_call(
                                crawl_sessions, session_id, to_dict(r.stats), run, f)
                         /\ trace' = [seen EXCEPT
                                !.finish_log = Append(@,
                                    [sid |-> session_id, stats |-> to_dict(r.stats),
                                     outcome |-> f]),
                                !.escaped = "RecordError",
                                !.propagated = IF f = "ok" THEN "RecordError"
                                               ELSE "finish_session:159"]
                    /\ pc' = "raised"
                    /\ page' = 0
                    /\ UNCHANGED <<raw_notices, idx>>
               ELSE /\ stats' = r.stats
                    /\ collected_notices' = r.collected
                    /\ trace' = IF has_next_notice(idx, Len(raw_notices)) THEN seen
                                 ELSE [seen EXCEPT !.page_delays =
                                         delay_between_pages(@, page, config.max_pages)]
                    /\ UNCHANGED crawl_sessions
                    /\ IF has_next_notice(idx, Len(raw_notices))
                       THEN /\ idx' = idx + 1
                            /\ UNCHANGED <<pc, page, raw_notices>>
                       ELSE /\ pc' = "page"
                            /\ page' = page + 1
                            /\ raw_notices' = <<>>
                            /\ idx' = 0
    /\ UNCHANGED <<upstream, config, run, session_id, snap, client_vars, fn_vars, race_vars>>

\* run_with_config after the page loop: finish_session (line 154) and the
\* return. When that finish_session raises, the exception is caught by the
\* handler of the same try statement, which calls finish_session again.
FinishRun ==
    /\ pc = "page"
    /\ page > config.max_pages
    /\ \E f \in FinishOutcomes :
         IF f = "ok"
         THEN /\ crawl_sessions' = finish_session_call(crawl_sessions, session_id,
                                                       to_dict(stats), run, f)
              /\ trace' = [trace EXCEPT !.finish_log = Append(@, FinishCall(f))]
              /\ pc' = "returned"
              /\ page' = 0
         ELSE \E g \in FinishOutcomes :
              /\ crawl_sessions' = finish_session_call(crawl_sessions, session_id,
                                                       to_dict(stats), run, g)
              /\ trace' = [trace EXCEPT
                              !.finish_log = @ \o <<FinishCall(f), FinishCall(g)>>,
                              !.escaped = "finish_session:154",
                              !.propagated = IF g = "ok" THEN "finish_session:154"
                                             ELSE "finish_session:159"]
              /\ pc' = "raised"
              /\ page' = 0
    /\ last' = LastNone
    /\ UNCHANGED <<nuri_notices, scrap_log, upstream, config, run, session_id,
                   raw_notices, idx, stats, collected_notices, ever_saved,
                   snap, prev, client_vars, fn_vars, race_vars>>

\* An interrupt handled the way `except Exception` handles an exception:
\* the session is finished before the process stops
Interrupt_Caught ==
    /\ pc \in {"page", "notice"}
    /\ pc' = "killed"
    /\ crawl_sessions' = finish_session(crawl_sessions, session_id,
                                        to_dict(stats), run)
    /\ stats' = CrawlerStats
    /\ collected_notices' = <<>>
    /\ raw_notices' = <<>>
    /\ idx' = 0
    /\ page' = 0
    /\ last' = LastNone
    /\ trace' = [trace EXCEPT !.page_log = <<>>, !.page_delays = <<>>,
                              !.failed_kinds = {}, !.saved = <<>>,
                              !.finish_log = Append(@, FinishCall("ok"))]
    /\ UNCHANGED <<nuri_notices, scrap_log, upstream, config, run, session_id,
                   ever_saved, snap, prev, client_vars, fn_vars, race_vars>>

\* The process is stopped from outside (KeyboardInterrupt, a kill): the
\* interrupt is not an Exception, so neither handler of the crawler catches
\* it; nothing of run_with_config runs any more and what was in memory is
\* gone.
Interrupt ==
    /\ pc \in {"page", "notice"}
    /\ pc' = "killed"
    /\ stats' = CrawlerStats
    /\ collected_notices' = <<>>
    /\ raw_notices' = <<>>
    /\ idx' = 0
    /\ page' = 0
    /\ last' = LastNone
    /\ trace' = [trace EXCEPT !.page_log = <<>>, !.page_delays = <<>>,
                              !.failed_kinds = {}, !.saved = <<>>]
    /\ UNCHANGED <<store_vars, upstream, config, run, session_id, ever_saved,
                   snap, prev, client_vars, fn_vars, race_vars>>

Next ==
    \/ StartRun
    \/ ProcessPage
    \/ ProcessNotice
    \/ FinishRun
    \/ Interrupt

Spec == Init /\ [][Next]_vars

\* Runs over LongRunPages pages. What each page answers is fixed from the
\* start: a failed fetch (None), or a list of well-formed records.
WellFormedNotices == { [id |-> "a", title |-> "T"], [id |-> "b", title |-> "T"] }

LongRunResponses ==
    { NullResponse }
    \cup { DictResponse("result", TRUE, l) :
             l \in SeqsUpTo(WellFormedNotices, MaxNotices) \ {<<>>} }

InitPages ==
    /\ CrawlerIdle
    /\ config = [max_pages |-> LongRunPages, records_per_page |-> 10,
                 fetch_details |-> FALSE]
    /\ upstream \in [1..LongRunPages -> LongRunResponses]
    /\ ClientIdle
    /\ TransformerIdle
    /\ WorkersIdle

SpecPages == InitPages /\ [][Next]_vars

\* Runs over one page whose body has any of the shapes the list endpoint can
\* answer with: a dict holding any of the keys of LIST_KEYS and a key that is
\* not one of them, each with a value that is a list or is not, or a bare list;
\* or the fetch fails with None.
FieldValues ==
    { [islist |-> FALSE, items |-> <<>>],
      [islist |-> TRUE, items |-> <<>>],
      [islist |-> TRUE, items |-> <<[id |-> "a", title |-> "T"]>>],
      [islist |-> TRUE, items |-> <<[id |-> "b", title |-> "T"]>>] }

ResponseKeys == { LIST_KEYS[i] : i \in 1..Len(LIST_KEYS) } \cup {"items"}

ShapeResponses ==
    { [kind |-> "dict", fields |-> f, items |-> <<>>] :
        f \in UNION { [K -> FieldValues] : K \in SUBSET ResponseKeys } }
    \cup { ListResponse(l) : l \in SeqsUpTo(WellFormedNotices, MaxNotices) }
    \cup { NullResponse }

InitShapes ==
    /\ CrawlerIdle
    /\ config = [max_pages |-> 1, records_per_page |-> 10, fetch_details |-> FALSE]
    /\ \E r \in ShapeResponses :
          upstream = [p \in 1..MaxPages |-> IF p = 1 THEN r ELSE Unasked]
    /\ ClientIdle
    /\ TransformerIdle
    /\ WorkersIdle

SpecShapes == InitShapes /\ [][Next]_vars

(***************************************************************************)
(* The pipeline over an upstream that changes between runs: the list       *)
(* endpoint may answer a later run with other field values for an id it    *)
(* has listed before.                                                      *)
(***************************************************************************)
ChangingNotices ==
    { [id |-> "a", title |-> "T"], [id |-> "a", title |-> "T2"],
      [id |-> "b", title |-> "T"] }

ChangingResponses ==
    { DictResponse("result", TRUE, l) :
        l \in SeqsUpTo(ChangingNotices, MaxNotices) \ {<<>>} }

InitChange ==
    /\ CrawlerIdle
    /\ config \in [max_pages : {1}, records_per_page : {10},
                   fetch_details : BOOLEAN]
    /\ \E r \in ChangingResponses :
          upstream = [p \in 1..MaxPages |-> IF p = 1 THEN r ELSE Unasked]
    /\ ClientIdle
    /\ TransformerIdle
    /\ WorkersIdle

\* Between two runs the upstream replaces what it lists on page 1
UpstreamChanges ==
    /\ pc \in {"returned", "raised", "killed"}
    /\ run < MaxRuns
    /\ \E r \in ChangingResponses \ {upstream[1]} :
          upstream' = [upstream EXCEPT ![1] = r]
    /\ UNCHANGED <<store_vars, config, run_vars, hist_vars, client_vars, fn_vars, race_vars>>

NextChange ==
    \/ Next
    \/ UpstreamChanges

SpecChange == InitChange /\ [][NextChange]_vars

(***************************************************************************)
(* NuriAPIClient._make_request (crawler/client.py)                         *)
(***************************************************************************)
\* The Retry-After header of a 429: absent, a number of seconds, or text
\* that int() does not accept (an HTTP date).
RetryAfterHeaders ==
    { [present |-> FALSE, numeric |-> FALSE, value |-> 0],
      [present |-> TRUE, numeric |-> TRUE, value |-> 1],
      [present |-> TRUE, numeric |-> TRUE, value |-> 5],
      [present |-> TRUE, numeric |-> FALSE, value |-> 0] }
NoHeader == [present |-> FALSE, numeric |-> FALSE, value |-> 0]

\* What session.post does: answers with a status code, or raises.
ServerAnswers ==
    { [kind |-> "status", code |-> c, exc |-> "", retry_after |-> NoHeader] :
        c \in {200, 204, 302, 400, 500, 503} }
    \cup { [kind |-> "status", code |-> 429, exc |-> "", retry_after |-> h] :
             h \in RetryAfterHeaders }
    \cup { [kind |-> "exc", code |-> 0, exc |-> e, retry_after |-> NoHeader] :
             e \in {"Timeout", "ConnectionError", "RuntimeError"} }

Min(a, b) == IF a < b THEN a ELSE b

wait_time_Uncapped(attempt) == RETRY_BACKOFF_BASE ^ attempt
wait_time(attempt) == Min(RETRY_BACKOFF_BASE ^ attempt, RETRY_BACKOFF_MAX)

Step(next, slept, wait) == [next |-> next, slept |-> slept, wait |-> wait]

\* Lines 105 to 112: a 5xx answer
on_server_error(attempt, max_retries) ==
    IF attempt < max_retries
    THEN Step("continue", TRUE, wait_time(attempt))
    ELSE Step("null", FALSE, 0)

\* A 4xx answer handled as a 5xx answer is
on_client_error_Retried(attempt, max_retries) ==
    on_server_error(attempt, max_retries)
\* Lines 115 to 117: a 4xx answer raises NonRetryableAPIError, which the
\* handler of lines 132 to 135 raises again as NonRetryableAPIError
on_client_error(attempt, max_retries) == Step("raise", FALSE, 0)

\* A transport failure on the last attempt raised to the caller
on_transport_error_RaiseLast(attempt, max_retries) ==
    IF attempt < max_retries
    THEN Step("continue", TRUE, wait_time(attempt))
    ELSE Step("raise", FALSE, 0)
\* Lines 123 to 130: Timeout or ConnectionError; on the last attempt the
\* handler does nothing and the loop ends
on_transport_error(attempt, max_retries) ==
    IF attempt < max_retries
    THEN Step("continue", TRUE, wait_time(attempt))
    ELSE Step("continue", FALSE, 0)

\* A status that is none of those tested returned to the caller as a body
on_other_status_Returned(attempt, max_retries) == Step("body", FALSE, 0)
\* Lines 97 to 120 for a status that is none of 429, 5xx, 4xx and 200: no
\* test is true, the try body ends without a return, a raise or a sleep, and
\* the for loop goes to its next iteration
on_other_status(attempt, max_retries) == Step("continue", FALSE, 0)

\* One iteration of the for loop (lines 88 to 135) with the given answer:
\* how the iteration leaves ("continue": on to the next iteration, "null" /
\* "body": a return, "raise": NonRetryableAPIError) and the sleep it made.
attempt_step(attempt, max_retries, answer) ==
    IF answer.kind = "exc"
    THEN IF answer.exc \in {"Timeout", "ConnectionError"}
         THEN on_transport_error(attempt, max_retries)
         ELSE Step("raise", FALSE, 0)
    ELSE IF answer.code = 429
    THEN IF answer.retry_after.present /\ ~answer.retry_after.numeric
         THEN Step("raise", FALSE, 0)
         ELSE Step("continue", TRUE,
                   IF answer.retry_after.present THEN answer.retry_after.value
                   ELSE RATE_LIMIT_WAIT)
    ELSE IF 500 <= answer.code /\ answer.code < 600
    THEN on_server_error(attempt, max_retries)
    ELSE IF 400 <= answer.code /\ answer.code < 500
    THEN on_client_error(attempt, max_retries)
    ELSE IF answer.code = 200
    THEN Step("body", FALSE, 0)
    ELSE on_other_status(attempt, max_retries)

PipelineIdle ==
    /\ CrawlerIdle
    /\ config = [max_pages |-> 1, records_per_page |-> 10, fetch_details |-> FALSE]
    /\ upstream = [p \in 1..MaxPages |-> Unasked]

\* A client constructed with some max_retries, about to make one request
ClientInit ==
    /\ PipelineIdle
    /\ c_max \in 0..MaxRetriesCfg
    /\ c_pc = "loop"
    /\ c_attempt = 0
    /\ c_log = <<>>
    /\ c_result = "none"
    /\ TransformerIdle
    /\ WorkersIdle

\* One iteration of `for attempt in range(1, self.max_retries + 1)`
Attempt ==
    /\ c_pc = "loop"
    /\ c_attempt < c_max
    /\ \E answer \in ServerAnswers :
         LET attempt == c_attempt + 1
             st == attempt_step(attempt, c_max, answer)
         IN /\ c_attempt' = attempt
            /\ c_log' = Append(c_log, [answer |-> answer, slept |-> st.slept,
                                       wait |-> st.wait])
            /\ c_pc' = CASE st.next = "continue" -> "loop"
                         [] st.next = "raise" -> "raised"
                         [] OTHER -> "returned"
            /\ c_result' = CASE st.next = "continue" -> "none"
                             [] st.next = "raise" -> "NonRetryableAPIError"
                             [] OTHER -> st.next
    /\ UNCHANGED <<pipeline_vars, fn_vars, race_vars, c_max>>

\* The loop is over without a return (lines 137 and 138)
GiveUp ==
    /\ c_pc = "loop"
    /\ ~(c_attempt < c_max)
    /\ c_pc' = "returned"
    /\ c_result' = "null"
    /\ UNCHANGED <<pipeline_vars, fn_vars, race_vars, c_max, c_attempt, c_log>>

ClientNext ==
    \/ Attempt
    \/ GiveUp

SpecClient == ClientInit /\ [][ClientNext]_vars

(***************************************************************************)
(* NuriDataTransformer._normalize_date on its own                          *)
(***************************************************************************)
\* The date strings the method is called with: three fields (a year, a day,
\* a month with or without leading zero, or letters) joined by nothing, a
\* slash, a dash or a dot, followed by nothing, by a space and a time, or by
\* a time without a space; and the empty string.
FirstFields == { <<"2", "0", "2", "4">>, <<"0", "5">>, <<"a", "b", "c", "d">> }
SecondFields == { <<"0", "1">>, <<"1">>, <<"e", "f">> }
ThirdFields == { <<"0", "5">>, <<"2", "0", "2", "4">>, <<"g", "h">> }
Separators == { <<>>, <<"/">>, <<"-">>, <<".">> }
TimeParts == { <<>>, <<" ", "1", "0", ":", "3", "0">>, <<"T", "1", "0">> }

DateStrings ==
    { a \o s1 \o b \o s2 \o c \o t :
        a \in FirstFields, s1 \in Separators, b \in SecondFields,
        s2 \in Separators, c \in ThirdFields, t \in TimeParts }
    \cup { <<>> }

DatesInit ==
    /\ PipelineIdle
    /\ ClientIdle
    /\ WorkersIdle
    /\ f_pc = "call"
    /\ f_arg \in DateStrings
    /\ f_ret = <<>>
    /\ f_ret0 = <<>>

\* _normalize_date(date_str)
NormalizeDate ==
    /\ f_pc = "call"
    /\ f_ret' = normalize_date(f_arg)
    /\ f_pc' = "returned"
    /\ UNCHANGED <<pipeline_vars, client_vars, race_vars, f_arg, f_ret0>>

\* _normalize_date applied to what the first call returned
NormalizeAgain ==
    /\ f_pc = "returned"
    /\ f_ret0' = f_ret
    /\ f_ret' = normalize_date(f_ret)
    /\ f_pc' = "again"
    /\ UNCHANGED <<pipeline_vars, client_vars, race_vars, f_arg>>

DatesNext ==
    \/ NormalizeDate
    \/ NormalizeAgain

SpecDates == DatesInit /\ [][DatesNext]_vars

(***************************************************************************)
(* NuriDataTransformer.enrich_with_detail on its own                       *)
(***************************************************************************)
\* dicts with keys among `keys` and values among `values`
DictsOver(keys, values) ==
    { Dict(e) : e \in UNION { [K -> values] : K \in SUBSET keys } }

\* The records the method is called with: budget empty or set, the demanding
\* organisation None, empty or set, the raw list entry absent or a dict that
\* may itself hold an entry named 'detail'.
EnrichDTOs ==
    [notice_id : {"a"}, title : {"T"}, due_date : {"2024-01-05"},
     budget : {"", "100"},
     demand_company : {JNull, JStr(""), JStr("X")},
     raw_data : {NoRawData} \cup DictsOver({"bidPbancNo", "detail"}, {JStr("v")})]

\* The detail payloads: not a dict, or a dict that may supply bscAmt and
\* dmndComp, as a string or as null
DetailPayloads ==
    {NotADictPayload} \cup DictsOver({"bscAmt", "dmndComp"}, {JStr("200"), JNull})

EnrichInit ==
    /\ PipelineIdle
    /\ ClientIdle
    /\ WorkersIdle
    /\ f_pc = "call"
    /\ f_arg \in [notice_dto : EnrichDTOs, detail_data : DetailPayloads]
    /\ f_ret = <<>>
    /\ f_ret0 = <<>>

\* enrich_with_detail(notice_dto, detail_data)
Enrich ==
    /\ f_pc = "call"
    /\ f_ret' = enrich_with_detail_fields(f_arg.notice_dto, f_arg.detail_data)
    /\ f_pc' = "returned"
    /\ UNCHANGED <<pipeline_vars, client_vars, race_vars, f_arg, f_ret0>>

EnrichNext == Enrich

SpecEnrich == EnrichInit /\ [][EnrichNext]_vars

(***************************************************************************)
(* Two runs at the record step on one store.  Each worker follows          *)
(* _process_notice for one record from the checkpoint on, one database     *)
(* statement at a time: is_already_done, the two INSERT OR REPLACE of      *)
(* save_notice, the commit or rollback at the end of its `with self.conn`, *)
(* and log_error after a failure.  In mode "shared" the workers are        *)
(* threads of one CrawlerStorage (check_same_thread=False): they share the *)
(* connection and so its open transaction.  In mode "separate" each worker *)
(* has its own connection to the same database file, and SQLite lets one   *)
(* connection write at a time.                                             *)
(***************************************************************************)
\* The connection worker w uses
conn(w) == IF t_mode = "shared" THEN 1 ELSE w

\* The tables as a statement on connection c sees them
View(c) ==
    IF t_pending[c] = NoTx THEN Db(nuri_notices, scrap_log) ELSE t_pending[c]

\* TRUE when connection c can take the write lock of the database file
CanWrite(c) == \A d \in Workers \ {c} : t_pending[d] = NoTx

\* The record worker w processes, as transform_notice returns it
WorkerDTO(w) == transform_notice([id |-> t_id[w], title |-> "T"])

InitRace ==
    /\ PipelineIdle
    /\ ClientIdle
    /\ TransformerIdle
    /\ t_mode \in {"shared", "separate"}
    /\ t_pc = [w \in Workers |-> "check"]
    /\ t_id \in [Workers -> Ids]
    /\ t_pending = [c \in Workers |-> NoTx]

\* Step 2 of _process_notice: the checkpoint
CheckDone(w) ==
    /\ t_pc[w] = "check"
    /\ t_pc' = [t_pc EXCEPT ![w] =
                  IF is_already_done(View(conn(w)).scrap_log, t_id[w])
                  THEN "skipped" ELSE "insert_notice"]
    /\ UNCHANGED <<pipeline_vars, client_vars, fn_vars, t_mode, t_id, t_pending>>

\* A statement of worker w inside `with self.conn` raises: the context
\* manager rolls the connection's transaction back, and the worker goes on to
\* `then`
Fails(w, then) ==
    /\ t_pending' = [t_pending EXCEPT ![conn(w)] = NoTx]
    /\ t_pc' = [t_pc EXCEPT ![w] = then]
    /\ UNCHANGED <<pipeline_vars, client_vars, fn_vars, t_mode, t_id>>

\* A statement of worker w writes the tables as `db` into the connection's
\* transaction
Writes(w, db, then) ==
    /\ t_pending' = [t_pending EXCEPT ![conn(w)] = db]
    /\ t_pc' = [t_pc EXCEPT ![w] = then]
    /\ UNCHANGED <<pipeline_vars, client_vars, fn_vars, t_mode, t_id>>

\* save_notice, first statement: INSERT OR REPLACE INTO nuri_notices
InsertNotice(w) ==
    /\ t_pc[w] = "insert_notice"
    /\ \/ /\ CanWrite(conn(w))
          /\ Writes(w, [View(conn(w)) EXCEPT !.nuri_notices =
                            InsertOrReplace(@, NoticeRow(WorkerDTO(w), w))],
                    "insert_log")
       \/ Fails(w, "log_error")

\* save_notice, second statement: INSERT OR REPLACE INTO scrap_log, SUCCESS
InsertLog(w) ==
    /\ t_pc[w] = "insert_log"
    /\ \/ /\ CanWrite(conn(w))
          /\ Writes(w, [View(conn(w)) EXCEPT !.scrap_log =
                            InsertOrReplace(@, [notice_id |-> t_id[w],
                                                status |-> "SUCCESS",
                                                collected_at |-> w])],
                    "commit")
       \/ Fails(w, "log_error")

\* The end of a `with self.conn` block that did not raise: the connection's
\* transaction is committed
CommitTx(w, at, then) ==
    /\ t_pc[w] = at
    /\ nuri_notices' = View(conn(w)).nuri_notices
    /\ scrap_log' = View(conn(w)).scrap_log
    /\ t_pending' = [t_pending EXCEPT ![conn(w)] = NoTx]
    /\ t_pc' = [t_pc EXCEPT ![w] = then]
    /\ UNCHANGED <<crawl_sessions, upstream, config, run_vars, hist_vars,
                   client_vars, fn_vars, t_mode, t_id>>

\* save_notice: the commit of its transaction
CommitSave(w) == CommitTx(w, "commit", "saved")

\* log_error after a failed save: INSERT OR REPLACE INTO scrap_log, FAILED
LogError(w) ==
    /\ t_pc[w] = "log_error"
    /\ \/ /\ CanWrite(conn(w))
          /\ Writes(w, [View(conn(w)) EXCEPT !.scrap_log =
                            InsertOrReplace(@, [notice_id |-> t_id[w],
                                                status |-> "FAILED",
                                                collected_at |-> w])],
                    "commit_error")
       \/ Fails(w, "failed")

\* log_error: the commit of its transaction
CommitError(w) == CommitTx(w, "commit_error", "failed")

NextRace ==
    \E w \in Workers :
        \/ CheckDone(w)
        \/ InsertNotice(w)
        \/ InsertLog(w)
        \/ CommitSave(w)
        \/ LogError(w)
        \/ CommitError(w)

SpecRace == InitRace /\ [][NextRace]_vars

(***************************************************************************)
(* Properties                                                              *)
(***************************************************************************)
HasSuccess(log, id) ==
    \E i \in 1..Len(log) : log[i].notice_id = id /\ log[i].status = "SUCCESS"
HasFailed(log, id) ==
    \E i \in 1..Len(log) : log[i].notice_id = id /\ log[i].status = "FAILED"
SkipOps == <<"transform_notice", "is_already_done">>
Contains(seq, x) == \E i \in 1..Len(seq) : seq[i] = x

\* C1: after any number of sequential runs, every id that some run has
\* successfully saved has exactly one row in nuri_notices and exactly one row
\* in scrap_log, however often the upstream lists it again.
C1_ExactlyOneRowPerSavedId ==
    \A id \in ever_saved :
        Count(nuri_notices, id) = 1 /\ Count(scrap_log, id) = 1

\* C1 witness: a saved id that the upstream lists twice on a page has just been
\* met again in the second run.
C1_Witness ==
    /\ run = 2 /\ pc = "notice" /\ idx = 2
    /\ raw_notices[1].id = "a" /\ raw_notices[2].id = "a"
    /\ last.notice_id = "a" /\ last.ops = SkipOps
    /\ "a" \in ever_saved

\* C2: SUCCESS is monotonic: an id whose scrap_log row says SUCCESS has a
\* SUCCESS row after every step; no later save attempt and no later run
\* turns it into FAILED.
C2_SuccessMonotonic ==
    [][\A id \in Ids : HasSuccess(scrap_log, id) => HasSuccess(scrap_log', id)]_vars

\* C2 witness: a run has ended after meeting again an id whose SUCCESS row
\* was written by the run before it.
C2_Witness ==
    /\ run = 2 /\ pc = "returned" /\ stats.total_skipped > 0
    /\ \E i \in 1..Len(scrap_log) :
          scrap_log[i].status = "SUCCESS" /\ scrap_log[i].collected_at = 1

C4_DuplicateSkippedBeforeDetail ==
    [][(/\ pc = "notice"
        /\ last'.ops # <<>>
        /\ raw_notices[idx].id # ""
        /\ HasSuccess(scrap_log, raw_notices[idx].id))
       => /\ last'.ops = SkipOps
          /\ stats' = [stats EXCEPT !.total_skipped = @ + 1]
          /\ collected_notices' = collected_notices
          /\ nuri_notices' = nuri_notices
          /\ scrap_log' = scrap_log]_vars

\* C4 witness: with detail enrichment on, a record with a SUCCESS row has
\* just been skipped.
C4_Witness ==
    /\ config.fetch_details
    /\ last.ops = SkipOps
    /\ HasSuccess(scrap_log, last.notice_id)
    /\ stats.total_skipped > 0

\* C5: nuri_notices never holds a row with an empty id or the placeholder
\* title; a record with the placeholder title that reaches the validation gate
\* is stopped there, and save_notice is never called for it.
C5_PlaceholderNeverPersisted ==
    /\ \A i \in 1..Len(nuri_notices) :
          nuri_notices[i].notice_id # "" /\ nuri_notices[i].title # NO_TITLE
    /\ last.title = NO_TITLE =>
          /\ ~Contains(last.ops, "save_notice")
          /\ last.save = "none"
          /\ Contains(last.ops, "validate_notice_dto") =>
                last.ops[Len(last.ops)] = "validate_notice_dto"

\* C5 witness: a record with the placeholder title was rejected at the gate
\* and counted as an error.
C5_Witness ==
    /\ last.title = NO_TITLE
    /\ last.ops # <<>> /\ last.ops[Len(last.ops)] = "validate_notice_dto"
    /\ stats.total_errors = 1

\* C6: a save commits both of its writes or neither. When the store answers
\* the save with a failure of either write, or the process is stopped between
\* the two writes, nuri_notices is exactly as before the call and no SUCCESS
\* row is written; when it answers ok, the row and its SUCCESS row are both
\* there.
C6_SaveAtomic ==
    [][(pc = "notice" /\ last'.answer # "-")
       => IF last'.answer = "ok"
          THEN /\ Count(nuri_notices', raw_notices[idx].id) = 1
               /\ HasSuccess(scrap_log', raw_notices[idx].id)
          ELSE /\ nuri_notices' = nuri_notices
               /\ ~HasSuccess(scrap_log', raw_notices[idx].id)]_vars

\* C6 witness: the process was stopped between the two writes of a save while
\* the table already held a row.
C6_Witness ==
    /\ pc = "killed" /\ last.answer = "interrupt" /\ last.save = "killed"
    /\ Len(nuri_notices) = 1

Is5xx(answer) == answer.kind = "status" /\ 500 <= answer.code /\ answer.code < 600
Is429(answer) ==
    /\ answer.kind = "status" /\ answer.code = 429
    /\ answer.retry_after.present => answer.retry_after.numeric
All5xx == c_log # <<>> /\ \A i \in 1..Len(c_log) : Is5xx(c_log[i].answer)
All429 == c_log # <<>> /\ \A i \in 1..Len(c_log) : Is429(c_log[i].answer)
Waits == [i \in 1..Len(c_log) |-> c_log[i].wait]

\* C8: when every send is answered with HTTP 5xx, the wait after the k-th
\* failed attempt is min(2^k, 10) seconds for each k below max_retries, no
\* wait follows the final attempt and the request yields null; for
\* max_retries = 3 the waits are exactly 2 and 4, and no wait exceeds 10.
C8_BackoffOn5xx ==
    All5xx =>
        /\ \A k \in 1..Len(c_log) :
              IF k < c_max
              THEN /\ c_log[k].slept
                   /\ c_log[k].wait = (IF 2^k < 10 THEN 2^k ELSE 10)
              ELSE /\ ~c_log[k].slept
                   /\ c_log[k].wait = 0
        /\ \A k \in 1..Len(c_log) : c_log[k].wait <= 10
        /\ IF Len(c_log) = c_max
           THEN c_pc = "returned" /\ c_result = "null"
           ELSE c_pc = "loop" /\ c_result = "none"
        /\ (c_max = 3 /\ c_pc = "returned") => Waits = <<2, 4, 0>>

\* C8 witness: five sends, all answered 5xx, the fourth wait capped at 10,
\* and the request has yielded null.
C8_Witness ==
    /\ All5xx /\ c_max = 5 /\ Len(c_log) = 5
    /\ Waits = <<2, 4, 8, 10, 0>>
    /\ c_pc = "returned" /\ c_result = "null"

\* C9 as stated: whenever a send is answered with 429 carrying Retry-After: n
\* (or no header), the client waits exactly n seconds (60 without the header)
\* and then issues a next attempt, whatever the attempt number, also when the
\* 429 arrives on attempt number max_retries.
C9_RateLimitAlwaysRetried ==
    \A i \in 1..Len(c_log) :
        Is429(c_log[i].answer) =>
            /\ c_log[i].slept
            /\ c_log[i].wait = (IF c_log[i].answer.retry_after.present
                                THEN c_log[i].answer.retry_after.value
                                ELSE 60)
            /\ \/ i < Len(c_log)
               \/ c_pc = "loop" /\ c_attempt < c_max

\* C10 as stated: 429 answers do not count against max_retries; as long as
\* the server has answered every send with 429 the request has not returned.
C10_RateLimitUnbounded ==
    All429 => c_pc = "loop" /\ c_result = "none"

Is4xx(answer) ==
    /\ answer.kind = "status" /\ 400 <= answer.code /\ answer.code < 500
    /\ answer.code # 429
IsTransport(answer) ==
    answer.kind = "exc" /\ answer.exc \in {"Timeout", "ConnectionError"}
Is200(answer) == answer.kind = "status" /\ answer.code = 200

\* C11: a 4xx answer other than 429 ends the request at once with
\* NonRetryableAPIError: it is the last send of the request, no wait follows
\* it, whatever attempts remain.
C11_ClientErrorNotRetried ==
    \A i \in 1..Len(c_log) :
        Is4xx(c_log[i].answer) =>
            /\ i = Len(c_log)
            /\ ~c_log[i].slept /\ c_log[i].wait = 0
            /\ c_pc = "raised" /\ c_result = "NonRetryableAPIError"
            /\ ~ENABLED Attempt

\* C11 witness: the first of three allowed attempts was answered 400 and the
\* request has raised after that one send.
C11_Witness ==
    /\ c_max = 3 /\ Len(c_log) = 1 /\ Is4xx(c_log[1].answer)
    /\ c_pc = "raised" /\ c_result = "NonRetryableAPIError"

\* C12: a send that fails at transport level (Timeout, ConnectionError) is
\* followed by a wait of min(2^attempt, 10) seconds and a retry while attempts
\* remain; when all max_retries sends fail at transport level the request
\* returns null and raises nothing; when a later send is answered 200 the
\* request returns that body.
C12_TransportFailureRetried ==
    /\ \A i \in 1..Len(c_log) :
          IsTransport(c_log[i].answer) =>
              IF i < c_max
              THEN /\ c_log[i].slept
                   /\ c_log[i].wait = (IF 2^i < 10 THEN 2^i ELSE 10)
                   /\ i < Len(c_log) \/ (c_pc = "loop" /\ ENABLED Attempt)
              ELSE /\ ~c_log[i].slept
                   /\ c_pc \in {"loop", "returned"}
    /\ (c_log # <<>> /\ \A i \in 1..Len(c_log) : IsTransport(c_log[i].answer)) =>
          /\ c_pc # "raised"
          /\ c_pc = "returned" => (Len(c_log) = c_max /\ c_result = "null")
          /\ (Len(c_log) = c_max /\ c_pc = "loop") => ~ENABLED Attempt
    /\ (/\ Len(c_log) > 1
        /\ \A i \in 1..(Len(c_log) - 1) : IsTransport(c_log[i].answer)
        /\ Is200(c_log[Len(c_log)].answer)) =>
          c_pc = "returned" /\ c_result = "body"

\* C12 witness: four transport failures with the waits 2, 4, 8, 10, then the
\* fifth send is answered 200 and its body is returned.
C12_Witness ==
    /\ c_max = 5 /\ Len(c_log) = 5
    /\ \A i \in 1..4 : IsTransport(c_log[i].answer)
    /\ Waits = <<2, 4, 8, 10, 0>>
    /\ Is200(c_log[5].answer)
    /\ c_pc = "returned" /\ c_result = "body"

\* C12 second case reached: every one of three sends failed at transport
\* level and the request has returned null.
C12_AllFailedReached ==
    /\ c_max = 3 /\ Len(c_log) = 3
    /\ \A i \in 1..3 : IsTransport(c_log[i].answer)
    /\ c_pc = "returned" /\ c_result = "null"

FetchedPages == { trace.page_log[i].page : i \in 1..Len(trace.page_log) }
NullPages == { p \in FetchedPages : upstream[p] = NullResponse }
ProcessedOf(p) == trace.page_log[p].processed

\* C13: a page whose list fetch returns null adds one to pages_failed, none of
\* its records is processed, and the other pages 1..max_pages are still
\* fetched, in order, and fully processed; with page 2 of 3 failing, pages 1
\* and 3 are fully processed and pages_failed is 1.
C13_PageFailureIsolated ==
    /\ \A i \in 1..Len(trace.page_log) :
          /\ trace.page_log[i].page = i
          /\ upstream[i] = NullResponse => ProcessedOf(i) = 0
    /\ pc \in {"page", "notice", "returned"} =>
          stats.pages_failed = Cardinality(NullPages)
    /\ pc = "returned" =>
          /\ FetchedPages = 1..config.max_pages
          /\ \A p \in 1..config.max_pages :
                upstream[p] # NullResponse =>
                    ProcessedOf(p) = Len(extract_notices(upstream[p]))
          /\ stats.pages_processed = config.max_pages - Cardinality(NullPages)

\* C13 witness: a run over three pages has returned; page 2 failed, pages 1
\* and 3 listed records and all of them were processed; pages_failed is 1.
C13_Witness ==
    /\ pc = "returned" /\ run = 1 /\ config.max_pages = 3
    /\ NullPages = {2}
    /\ ProcessedOf(1) = 2 /\ ProcessedOf(2) = 0 /\ ProcessedOf(3) = 2
    /\ stats.pages_failed = 1 /\ stats.total_found = 4

ThisSession == crawl_sessions[session_id]

\* C14: an exception raised while one record is normalized, validated or
\* persisted never leaves _process_notice: the loop goes on with the next
\* record, a run never ends with a record's exception, and a run that returns
\* has made one _process_notice call for every record of every page it
\* fetched, with its session COMPLETED.
C14_RecordFailureIsolated ==
    /\ trace.escaped # "RecordError" /\ trace.propagated # "RecordError"
    /\ last.failed # "none" =>
          \/ pc = "notice" /\ idx >= 2 /\ idx <= Len(raw_notices)
          \/ pc = "page"
    /\ pc = "returned" =>
          /\ FetchedPages = 1..config.max_pages
          /\ \A p \in FetchedPages :
                ProcessedOf(p) = Len(extract_notices(upstream[p]))
          /\ ThisSession.status = "COMPLETED"

\* C14 witness: a run has returned COMPLETED in which one record failed to
\* normalize, one was rejected by validation, one failed to persist, and
\* one was saved.
C14_Witness ==
    /\ pc = "returned"
    /\ trace.failed_kinds = {"normalize", "validate", "persist"}
    /\ stats.total_collected = 1
    /\ ThisSession.status = "COMPLETED"

\* C15 as stated: every record that fails, by a validation rejection or by an
\* exception while it is normalized or persisted, adds exactly 1 to
\* total_errors, and a record that does not fail adds nothing.
C15_OneErrorPerFailedRecord ==
    IF last.failed = "none" THEN last.errors = 0 ELSE last.errors = 1

\* C16 as stated: a NonRetryableAPIError raised by the list fetch of a page
\* is caught at page level; it never leaves the page loop, so no run ends
\* with it.
C16_TerminalFetchFailureIsFailedPage ==
    /\ trace.escaped # "NonRetryableAPIError"
    /\ trace.propagated # "NonRetryableAPIError"

\* C17 as stated: in every run that has ended, normally or with an
\* exception, start_session was called exactly once and finish_session was
\* called exactly once, for the session id start_session returned.
C17_SessionCallsOncePerRun ==
    (pc \in {"returned", "raised"} /\ ConfigValid(config)) =>
        /\ trace.start_calls = 1
        /\ Len(trace.finish_log) = 1
        /\ trace.finish_log[1].sid = session_id

\* C18 as stated: when a run has returned, its crawl_sessions row holds the
\* counters of the run: the stored found, collected, skipped and errors
\* values equal those of the CrawlerStats the run accumulated.
C18_SessionRowHoldsCounters ==
    pc = "returned" =>
        /\ ThisSession.total_found = stats.total_found
        /\ ThisSession.total_collected = stats.total_collected
        /\ ThisSession.total_skipped = stats.total_skipped
        /\ ThisSession.total_errors = stats.total_errors

\* C19 as stated, for a store that answers the finish_session call of the
\* handler: when an exception has left the guards of the page loop, the
\* session row is finalized (COMPLETED, end time set, holding the stats
\* accumulated so far) and the run has raised that same exception.
C19_FatalExceptionFinalizedThenRaised ==
    (pc = "raised" /\ trace.escaped # "none"
     /\ trace.finish_log[Len(trace.finish_log)].outcome = "ok") =>
        /\ ThisSession.status = "COMPLETED"
        /\ ThisSession.finished_at = run
        /\ ThisSession.total_found = stats.total_found
        /\ ThisSession.total_collected = stats.total_collected
        /\ ThisSession.total_skipped = stats.total_skipped
        /\ ThisSession.total_errors = stats.total_errors
        /\ trace.propagated = trace.escaped

\* What of C19 the code does when the store answers the handler's
\* finish_session: the row is COMPLETED with its end time set, finish_session
\* was handed the stats accumulated so far, and the same exception is raised.
C19_FinalizedWhenStoreAnswers ==
    (pc = "raised" /\ trace.escaped # "none"
     /\ trace.finish_log[Len(trace.finish_log)].outcome = "ok") =>
        /\ ThisSession.status = "COMPLETED"
        /\ ThisSession.finished_at = run
        /\ trace.finish_log[Len(trace.finish_log)].stats = to_dict(stats)
        /\ trace.propagated = trace.escaped

\* C20: a run stopped by an external interrupt after start_session has made
\* no finish_session call; its session row stays RUNNING without an end
\* time, also during the next run; every record saved before the interrupt
\* keeps its row and its SUCCESS row, and the next run skips it.
C20_InterruptLeavesSessionRunning ==
    /\ pc = "killed" =>
          /\ trace.finish_log = <<>>
          /\ ThisSession.status = "RUNNING" /\ ThisSession.finished_at = 0
          /\ \A id \in ever_saved :
                HasSuccess(scrap_log, id) /\ Count(nuri_notices, id) = 1
    /\ (prev.ended = "killed" /\ pc \in {"page", "notice", "returned", "raised"}) =>
          /\ crawl_sessions[session_id - 1].status = "RUNNING"
          /\ crawl_sessions[session_id - 1].finished_at = 0
          /\ \A id \in Ids :
                HasSuccess(snap.scrap_log, id) =>
                    /\ HasSuccess(scrap_log, id)
                    /\ RowsOf(nuri_notices, id) = RowsOf(snap.nuri_notices, id)
          /\ (last.ops # <<>> /\ HasSuccess(snap.scrap_log, last.notice_id)) =>
                /\ last.ops = SkipOps
                /\ last.save = "none"

\* C20 witness: the first run saved a record and was interrupted; the second
\* run has met that record and skipped it, and the first session is still
\* RUNNING.
C20_Witness ==
    /\ run = 2 /\ prev.ended = "killed" /\ pc = "notice"
    /\ crawl_sessions[1].status = "RUNNING" /\ crawl_sessions[1].finished_at = 0
    /\ HasSuccess(snap.scrap_log, last.notice_id)
    /\ last.ops = SkipOps
    /\ stats.total_skipped = 1

\* TRUE while the run has made no request and has written nothing
NothingDone ==
    /\ nuri_notices = snap.nuri_notices /\ scrap_log = snap.scrap_log
    /\ trace.start_calls = 0 /\ trace.finish_log = <<>>
    /\ trace.page_log = <<>> /\ trace.escaped = "none"
    /\ last.ops = <<>>

\* C21: a configuration with max_pages < 1, records_per_page < 1 or
\* records_per_page > 100 makes run() raise ValueError before a session is
\* started and before any list or detail request is sent (no session row is
\* added, no page is asked for, nothing is written); a configuration inside
\* the limits is accepted: the run starts its session and raises no
\* ValueError.
C21_ConfigValidatedAtConstruction ==
    run >= 1 =>
      IF config.max_pages < 1 \/ config.records_per_page < 1
            \/ config.records_per_page > 100
      THEN /\ pc = "raised" /\ trace.propagated = "ValueError"
           /\ NothingDone
           /\ crawl_sessions = <<>>
           /\ \A p \in DOMAIN upstream : upstream[p] = Unasked
      ELSE /\ trace.propagated # "ValueError"
           /\ trace.start_calls = 1
           /\ Len(crawl_sessions) = run

\* C21 witness: run() was called a second time with a page size of 101 and has
\* raised again, and the database is still empty.
C21_Witness ==
    /\ run = 2 /\ pc = "raised" /\ config.records_per_page = 101
    /\ trace.propagated = "ValueError"
    /\ crawl_sessions = <<>>

\* C21, second witness: a run with the largest accepted page size has returned
C21_AcceptedReached ==
    /\ pc = "returned" /\ config.records_per_page = 100 /\ config.max_pages = 1

\* C22 as stated: a page delay lies between every two consecutive page
\* fetches (the page about to be fetched, and every page fetched before the
\* latest one, was slept after its predecessor, also when that predecessor
\* failed), and the latest record's detail-fetch call, however it ended
\* (payload, null or exception), was followed by the detail delay.
C22_DelaysUnconditional ==
    /\ (pc = "page" /\ 1 < page /\ page <= config.max_pages) =>
          Contains(trace.page_delays, page - 1)
    /\ \A k \in 1..Len(trace.page_log) :
          k > 1 => Contains(trace.page_delays, trace.page_log[k - 1].page)
    /\ Contains(last.ops, "fetch_notice_detail") => Contains(last.ops, "sleep")

\* The page part of C22 alone, and the detail delay after a detail fetch that
\* returned (a payload or null)
C22_DelaysWhenFetchReturns ==
    /\ (pc = "page" /\ 1 < page /\ page <= config.max_pages) =>
          Contains(trace.page_delays, page - 1)
    /\ \A k \in 1..Len(trace.page_log) :
          k > 1 => Contains(trace.page_delays, trace.page_log[k - 1].page)
    /\ (Contains(last.ops, "fetch_notice_detail")
        /\ last.detail \in {"payload", "null"}) => Contains(last.ops, "sleep")

\* The number of records page p lists, as _process_page finds them
RecordsOf(p) ==
    IF Truthy(upstream[p]) THEN Len(extract_notices(upstream[p])) ELSE 0

\* C23: the list fetches of a run are for pages 1, 2, 3, ... in that order,
\* one fetch per page, and every record of a page has been processed before
\* the next page is fetched; a run that has returned (all pages attempted) has
\* fetched exactly the pages 1..max_pages, has processed every record of the
\* last page too, and pages_processed + pages_failed = max_pages.
C23_CompletedRunFetchedEveryPageOnce ==
    /\ \A k \in 1..Len(trace.page_log) :
          /\ trace.page_log[k].page = k
          /\ k < Len(trace.page_log) => trace.page_log[k].processed = RecordsOf(k)
    /\ pc = "returned" =>
          /\ Len(trace.page_log) = config.max_pages
          /\ \A k \in 1..config.max_pages :
                trace.page_log[k].processed = RecordsOf(k)
          /\ stats.pages_processed + stats.pages_failed = config.max_pages

\* C23 witness: a run over three pages has returned; the first page listed
\* two records, the second page failed, the third page listed one record.
C23_Witness ==
    /\ pc = "returned" /\ config.max_pages = 3
    /\ RecordsOf(1) = 2 /\ upstream[2] = NullResponse /\ RecordsOf(3) = 1
    /\ stats.pages_processed = 2 /\ stats.pages_failed = 1
    /\ stats.total_found = 3

\* C24: a raw record in which no identifier resolves is dropped silently:
\* transform_notice is the only call made for it (no checkpoint query, no
\* detail fetch, no validation, no save), total_skipped grows by one, every
\* other counter and both tables are unchanged, and the loop goes on.
C24_NoIdentifierDroppedSilently ==
    [][ (pc = "notice" /\ last'.ops # <<>> /\ raw_notices[idx].id = "") =>
          /\ transform_notice(raw_notices[idx]) = None
          /\ last'.ops = <<"transform_notice">>
          /\ stats' = [stats EXCEPT !.total_skipped = @ + 1]
          /\ UNCHANGED <<nuri_notices, scrap_log, collected_notices>>
          /\ pc' \in {"notice", "page"}
      ]_vars

\* C24 witness: the first record of a page had no identifier and was dropped;
\* the loop is at the second record.
C24_Witness ==
    /\ pc = "notice" /\ idx = 2
    /\ raw_notices[1].id = ""
    /\ last.notice_id = "" /\ last.ops = <<"transform_notice">>
    /\ stats.total_skipped = 1 /\ stats.total_errors = 0

\* TRUE when the value under key of the dict response r is a list
ValueIsList(r, key) == key \in DOMAIN r.fields /\ r.fields[key].islist
\* TRUE when the step is _process_page for a page that answers with a body
\* of the given kind
PageStepOn(kind) ==
    /\ pc = "page" /\ page <= config.max_pages /\ pc' # "killed"
    /\ upstream[page].kind = kind /\ Truthy(upstream[page])

\* C25: for a dict response, what _process_page gets from extract_notices is
\* the value under the first of result, list, resultList, data, rows whose
\* value is a list (a key whose value is not a list is passed over, an empty
\* list is a list); when no key qualifies it gets the empty list; nothing is
\* raised: the page counts as processed and the run goes on.
C25_FirstListKeyInOrder ==
    [][ PageStepOn("dict") =>
          LET r == upstream[page]
          IN /\ pc' \in {"page", "notice"}
             /\ stats'.pages_processed = stats.pages_processed + 1
             /\ \A i \in 1..Len(LIST_KEYS) :
                  (/\ ValueIsList(r, LIST_KEYS[i])
                   /\ \A j \in 1..(i - 1) : ~ValueIsList(r, LIST_KEYS[j])) =>
                     LET value == r.fields[LIST_KEYS[i]].items
                     IN /\ stats'.total_found = stats.total_found + Len(value)
                        /\ value # <<>> => (pc' = "notice" /\ raw_notices' = value)
                        /\ value = <<>> => pc' = "page"
             /\ (\A i \in 1..Len(LIST_KEYS) : ~ValueIsList(r, LIST_KEYS[i])) =>
                  /\ stats'.total_found = stats.total_found
                  /\ pc' = "page"
      ]_vars

\* C25 witness: 'result' holds a value that is not a list, 'list' holds the
\* list with record b and 'data' the list with record a: the page's records
\* are those of 'list'.
C25_Witness ==
    /\ pc = "notice" /\ idx = 1 /\ last.ops = <<>>
    /\ upstream[1].kind = "dict"
    /\ "result" \in DOMAIN upstream[1].fields /\ ~ValueIsList(upstream[1], "result")
    /\ ValueIsList(upstream[1], "list") /\ ValueIsList(upstream[1], "data")
    /\ upstream[1].fields["data"].items = <<[id |-> "a", title |-> "T"]>>
    /\ raw_notices = <<[id |-> "b", title |-> "T"]>>
    /\ stats.total_found = 1

\* C26 as stated: a list fetch that answers with a bare non-empty list has its
\* elements, unchanged, found and handed to the record loop.
C26_BareListProcessed ==
    [][ PageStepOn("list") =>
          /\ pc' = "notice"
          /\ raw_notices' = upstream[page].items
          /\ stats'.total_found = stats.total_found + Len(upstream[page].items)
      ]_vars

IsDigits(str) == \A i \in 1..Len(str) : str[i] \in {"0", "1", "2", "4", "5"}
Digits(str) == SelectSeq(str, LAMBDA c : c \in {"0", "1", "2", "4", "5"})
\* YYYYMMDD, YYYY/MM/DD or YYYY-MM-DD
IsDate(str) ==
    \/ Len(str) = 8 /\ IsDigits(str)
    \/ /\ Len(str) = 10 /\ IsDigits(Remove(Remove(str, "/"), "-"))
       /\ str[5] = str[8] /\ str[5] \in {"/", "-"}
       /\ Len(Digits(str)) = 8
\* A date, or a date followed by a space and a time
IsDateInput(str) ==
    \/ IsDate(str)
    \/ \E n \in 1..Len(str) : IsDate(SubSeq(str, 1, n - 1)) /\ str[n] = " "
\* YYYY-MM-DD
IsNormalDate(str) ==
    /\ Len(str) = 10 /\ str[5] = "-" /\ str[8] = "-"
    /\ IsDigits(SubSeq(str, 1, 4)) /\ IsDigits(SubSeq(str, 6, 7))
    /\ IsDigits(SubSeq(str, 9, 10))

\* C27 as stated: an eight-digit date, a slash- or dash-separated date, and
\* either of them followed by a space and a time, is mapped to YYYY-MM-DD with
\* the digits of the date kept; every other non-empty string is returned
\* unchanged; normalizing the result again returns the same result.
C27_NormalizeDateAsStated ==
    /\ (f_pc = "returned" /\ f_arg # <<>>) =>
          IF IsDateInput(f_arg)
          THEN /\ IsNormalDate(f_ret)
               /\ Digits(f_ret) = SubSeq(Digits(f_arg), 1, 8)
          ELSE f_ret = f_arg
    /\ f_pc = "again" => f_ret = f_ret0

\* What holds of _normalize_date: the three formats, with or without a time
\* after a space, give YYYY-MM-DD with the digits kept; a string whose first
\* field has not eight characters once slashes and dashes are taken out is
\* returned unchanged; the result normalizes to itself.
C27_RecognizedFormatsAndIdempotent ==
    /\ (f_pc = "returned" /\ f_arg # <<>>) =>
          /\ IsDateInput(f_arg) =>
               /\ IsNormalDate(f_ret)
               /\ Digits(f_ret) = SubSeq(Digits(f_arg), 1, 8)
          /\ Len(FirstField(Remove(Remove(f_arg, "/"), "-"))) # 8 => f_ret = f_arg
    /\ f_pc = "again" => f_ret = f_ret0

\* A date with the day first has been reformatted
C27_DayFirstReached ==
    /\ f_pc = "returned"
    /\ f_arg = <<"0", "5", "/", "0", "1", "/", "2", "0", "2", "4">>
    /\ f_ret = <<"0", "5", "0", "1", "-", "2", "0", "-", "2", "4">>

Supplies(detail_data, key) ==
    detail_data.isdict /\ key \in DOMAIN detail_data.entries

\* What C28 says of the canonical fields and of the nested key: fields other
\* than budget and demand_company are unchanged; budget (demand_company)
\* changes only when it was empty and the payload supplies bscAmt (dmndComp),
\* and then holds the supplied value; a dict payload is stored under
\* raw_data['detail'].
EnrichFields(before, detail_data, after) ==
    /\ after.notice_id = before.notice_id
    /\ after.title = before.title
    /\ after.due_date = before.due_date
    /\ IF before.budget = "" /\ Supplies(detail_data, "bscAmt")
       THEN after.budget = Str(detail_data.entries["bscAmt"])
       ELSE after.budget = before.budget
    /\ IF Falsy(before.demand_company) /\ Supplies(detail_data, "dmndComp")
       THEN after.demand_company = detail_data.entries["dmndComp"]
       ELSE after.demand_company = before.demand_company
    /\ (detail_data.isdict /\ before.raw_data # NoRawData) =>
          /\ "detail" \in DOMAIN after.raw_data.entries
          /\ after.raw_data.entries["detail"] = detail_data

\* C28 as stated: enrich never overwrites existing data: the canonical fields
\* as in EnrichFields, and every entry of the original list-response payload
\* is still in raw_data, with its value, after the call.
C28_EnrichNeverOverwrites ==
    f_pc = "returned" =>
      /\ EnrichFields(f_arg.notice_dto, f_arg.detail_data, f_ret)
      /\ \A k \in DOMAIN f_arg.notice_dto.raw_data.entries :
            /\ k \in DOMAIN f_ret.raw_data.entries
            /\ f_ret.raw_data.entries[k] = f_arg.notice_dto.raw_data.entries[k]

\* What holds of enrich_with_detail: the same, for every entry of the
\* original payload but one named 'detail'.
C28_EnrichKeepsOtherEntries ==
    f_pc = "returned" =>
      /\ EnrichFields(f_arg.notice_dto, f_arg.detail_data, f_ret)
      /\ \A k \in DOMAIN f_arg.notice_dto.raw_data.entries \ {"detail"} :
            /\ k \in DOMAIN f_ret.raw_data.entries
            /\ f_ret.raw_data.entries[k] = f_arg.notice_dto.raw_data.entries[k]

\* C29: whenever _process_notice asks the checkpoint for an id, the answer is
\* true (the record is skipped) exactly when the scrap_log row of the id says
\* SUCCESS; an id whose row says FAILED is not skipped but attempted again
\* (detail fetch if configured, validation, save); and when that save
\* succeeds, the id has one scrap_log row, which says SUCCESS, and one
\* nuri_notices row.
C29_FailedIsRetriedUntilSuccess ==
    [][ (pc = "notice" /\ Contains(last'.ops, "is_already_done")) =>
          LET id == last'.notice_id
          IN /\ (last'.ops = SkipOps) <=> HasSuccess(scrap_log, id)
             /\ HasFailed(scrap_log, id) =>
                  /\ Contains(last'.ops, "validate_notice_dto")
                  /\ last'.answer # "-" => Contains(last'.ops, "save_notice")
             /\ last'.save = "ok" =>
                  /\ Count(scrap_log', id) = 1
                  /\ HasSuccess(scrap_log', id) /\ ~HasFailed(scrap_log', id)
                  /\ Count(nuri_notices', id) = 1
      ]_vars

\* C29 witness: the save of record a failed in the first run, leaving a
\* FAILED row; the second run met a again and saved it.
C29_Witness ==
    /\ run = 2 /\ last.notice_id = "a"
    /\ HasFailed(snap.scrap_log, "a") /\ Count(snap.nuri_notices, "a") = 0
    /\ last.save = "ok"
    /\ HasSuccess(scrap_log, "a") /\ Count(scrap_log, "a") = 1
    /\ Count(nuri_notices, "a") = 1

IsBackoffFailure(answer) == Is5xx(answer) \/ IsTransport(answer)
\* The number of 5xx answers and transport failures among the first i sends
FailuresUpTo(i) == Cardinality({ j \in 1..i : IsBackoffFailure(c_log[j].answer) })

\* C30 as stated: in a request whose sends were answered only with 429, 5xx
\* or transport failures, the backoff wait slept after a 5xx answer or a
\* transport failure is min(2^k, 10) where k counts the 5xx answers and
\* transport failures so far, however many 429 answers came in between.
C30_RateLimitDoesNotEscalateBackoff ==
    \A i \in 1..Len(c_log) :
        (/\ IsBackoffFailure(c_log[i].answer) /\ c_log[i].slept
         /\ \A j \in 1..i : IsBackoffFailure(c_log[j].answer) \/ Is429(c_log[j].answer))
        => c_log[i].wait = Min(2 ^ FailuresUpTo(i), 10)

\* What holds of the backoff wait: it is min(2^attempt, 10) for the number of
\* the loop iteration, which every earlier answer has advanced, 429 included.
C30_BackoffFollowsLoopCounter ==
    \A i \in 1..Len(c_log) :
        (IsBackoffFailure(c_log[i].answer) /\ c_log[i].slept)
        => c_log[i].wait = Min(2 ^ i, 10)

\* The position of the first occurrence of x in seq, 0 when there is none
IndexOf(seq, x) ==
    IF Contains(seq, x)
    THEN CHOOSE i \in 1..Len(seq) : seq[i] = x /\ \A j \in 1..(i - 1) : seq[j] # x
    ELSE 0

\* C31: a record the validation gate rejects is discarded without touching
\* the store: the step writes no nuri_notices row and no scrap_log row
\* (SUCCESS or FAILED), save_notice is not called, the returned list does not
\* grow; and whenever save_notice is called for a record, validate_notice_dto
\* was called for it before.
C31_RejectedRecordLeavesStoreAlone ==
    [][ (pc = "notice" /\ last'.ops # <<>>) =>
          /\ last'.failed = "validate" =>
               /\ UNCHANGED <<nuri_notices, scrap_log, collected_notices>>
               /\ ~Contains(last'.ops, "save_notice")
               /\ stats'.total_errors = stats.total_errors + 1
               /\ stats'.total_collected = stats.total_collected
          /\ Contains(last'.ops, "save_notice") =>
               /\ Contains(last'.ops, "validate_notice_dto")
               /\ IndexOf(last'.ops, "validate_notice_dto")
                     < IndexOf(last'.ops, "save_notice")
               /\ validate_notice_dto(transform_notice(raw_notices[idx]))
      ]_vars

\* C31 witness: a record without a title was rejected on an empty database,
\* and the run has returned an empty list.
C31_Witness ==
    /\ pc = "returned" /\ run = 1
    /\ "validate" \in trace.failed_kinds
    /\ stats.total_errors = 1 /\ stats.total_found = 1
    /\ nuri_notices = <<>> /\ scrap_log = <<>>
    /\ collected_notices = <<>>

\* TRUE when the step is _process_page for a page whose fetch returns
FetchReturns ==
    /\ pc = "page" /\ page <= config.max_pages /\ pc' # "killed"
    /\ upstream[page].kind \in {"null", "dict", "list"}

\* C32 as stated: a page is counted in pages_failed exactly when its list
\* fetch yielded None; every other response, the empty dict included, counts
\* the page in pages_processed and not in pages_failed; one of the two
\* counters grows by one for every fetched page.
C32_FailedIffFetchNull ==
    [][ FetchReturns =>
          IF upstream[page].kind = "null"
          THEN /\ stats'.pages_failed = stats.pages_failed + 1
               /\ stats'.pages_processed = stats.pages_processed
          ELSE /\ stats'.pages_processed = stats.pages_processed + 1
               /\ stats'.pages_failed = stats.pages_failed
      ]_vars

\* What holds of _process_page: the page is counted as failed exactly when
\* the response is falsy (None, the empty dict, the empty list), and one of
\* the two counters grows by one for every fetched page.
C32_FailedIffResponseFalsy ==
    [][ FetchReturns =>
          IF ~Truthy(upstream[page])
          THEN /\ stats'.pages_failed = stats.pages_failed + 1
               /\ stats'.pages_processed = stats.pages_processed
          ELSE /\ stats'.pages_processed = stats.pages_processed + 1
               /\ stats'.pages_failed = stats.pages_failed
      ]_vars

\* C33: with fetch_details on, a detail fetch that returns None or raises
\* does not stop the record: it is still validated, is counted as an error
\* only when the validation or the save fails, is saved without the detail
\* fields when the store accepts it, and the run goes on to the next record
\* or page.
C33_DetailFailureDoesNotStopRecord ==
    [][ ( /\ pc = "notice" /\ last'.ops # <<>> /\ pc' # "killed"
          /\ last'.detail \in {"null", "raise"} ) =>
          /\ config.fetch_details
          /\ Contains(last'.ops, "fetch_notice_detail")
          /\ ~Contains(last'.ops, "enrich_with_detail")
          /\ Contains(last'.ops, "validate_notice_dto")
          /\ last'.failed = "none" => stats'.total_errors = stats.total_errors
          /\ last'.failed = "validate" \/ Contains(last'.ops, "save_notice")
          /\ last'.answer = "ok" =>
               /\ last'.save = "ok"
               /\ stats'.total_collected = stats.total_collected + 1
               /\ \E i \in 1..Len(nuri_notices') :
                    /\ nuri_notices'[i].notice_id = last'.notice_id
                    /\ nuri_notices'[i].detail = FALSE
               /\ is_already_done(scrap_log', last'.notice_id)
               /\ collected_notices' = Append(collected_notices,
                                              transform_notice(raw_notices[idx]))
          /\ pc' \in {"notice", "page"}
      ]_vars

C33_Witness ==
    /\ pc = "page" /\ run = 1
    /\ config.fetch_details
    /\ last.detail = "raise" /\ last.save = "ok"
    /\ stats.total_collected = 2 /\ stats.total_errors = 0
    /\ Len(nuri_notices) = 2
    /\ \A i \in 1..Len(nuri_notices) : nuri_notices[i].detail = FALSE

\* TRUE for an answer whose status is none of 200, 429, 4xx and 5xx
IsOtherStatus(e) ==
    /\ e.answer.kind = "status"
    /\ e.answer.code \notin {200, 429}
    /\ ~(400 <= e.answer.code /\ e.answer.code < 600)

\* C34: an answer whose status is none of 200, 429, 4xx and 5xx is neither
\* returned nor raised: the iteration makes no sleep and the loop goes on to
\* the next attempt; when it was the last of max_retries attempts the request
\* returns None.
C34_OtherStatusGoesToNextAttempt ==
    [][ /\ ( /\ c_pc = "loop" /\ Len(c_log') = Len(c_log) + 1
             /\ IsOtherStatus(c_log'[Len(c_log')]) ) =>
               /\ c_pc' = "loop" /\ c_result' = "none"
               /\ ~c_log'[Len(c_log')].slept
               /\ c_log'[Len(c_log')].wait = 0
               /\ c_attempt' = c_attempt + 1
        /\ ( /\ c_pc = "loop" /\ c_pc' # "loop" /\ c_log # <<>>
             /\ IsOtherStatus(c_log[Len(c_log)]) ) =>
               IF c_attempt < c_max
               THEN Len(c_log') = Len(c_log) + 1
               ELSE /\ c_pc' = "returned" /\ c_result' = "null"
                    /\ c_log' = c_log /\ Len(c_log) = c_max
      ]_vars

C34_Witness ==
    /\ c_pc = "returned" /\ c_result = "null"
    /\ c_max = MAX_RETRIES /\ Len(c_log) = MAX_RETRIES
    /\ \A i \in 1..Len(c_log) :
         /\ c_log[i].answer.code \in {204, 302}
         /\ ~c_log[i].slept
    /\ c_log[1].answer.code # c_log[2].answer.code

\* C35 as stated: when a run returns, total_found is the sum of
\* total_collected, total_skipped and total_errors, whatever mix of new,
\* duplicate, unidentifiable, invalid and store-failing records it met.
C35_CountersBalance ==
    pc = "returned" =>
        stats.total_found =
            stats.total_collected + stats.total_skipped + stats.total_errors

\* What holds: the counters balance in every run in which no save failed.
C35_BalanceWithoutStoreFailure ==
    (pc = "returned" /\ "persist" \notin trace.failed_kinds) =>
        stats.total_found =
            stats.total_collected + stats.total_skipped + stats.total_errors

\* C36: when a run returns, the list it returns holds exactly the records
\* whose save succeeded in this run, in the order they were processed, no id
\* twice; its length is total_collected, and every id in it is done
\* (is_already_done) in the store.
C36_ReturnedListIsWhatWasSaved ==
    pc = "returned" =>
        /\ Len(collected_notices) = Len(trace.saved)
        /\ \A i \in 1..Len(collected_notices) :
             /\ collected_notices[i].notice_id = trace.saved[i].notice_id
             /\ collected_notices[i].title = trace.saved[i].title
             /\ collected_notices[i].detail = trace.saved[i].detail
             /\ is_already_done(scrap_log, collected_notices[i].notice_id)
             /\ \A j \in 1..Len(collected_notices) :
                  collected_notices[i].notice_id = collected_notices[j].notice_id
                      => i = j
        /\ Len(collected_notices) = stats.total_collected

C36_Witness ==
    /\ pc = "returned" /\ run = 2
    /\ Len(collected_notices) = 1
    /\ collected_notices[1].notice_id = "b"
    /\ trace.saved = <<[notice_id |-> "b", title |-> "T", detail |-> TRUE]>>
    /\ "persist" \in trace.failed_kinds
    /\ Len(nuri_notices) = 2
    /\ stats.total_collected = 1

\* C37: in every state of sequential runs, failed saves and interrupted runs
\* included, nuri_notices has a row for an id exactly when scrap_log has the
\* id with status SUCCESS, and get_stats reports total_notices = successful.
C37_RowIffSuccessLogged ==
    /\ \A id \in Ids \cup {""} :
         (Count(nuri_notices, id) > 0) <=> is_already_done(scrap_log, id)
    /\ get_stats(Db(nuri_notices, scrap_log)).total_notices
         = get_stats(Db(nuri_notices, scrap_log)).successful

C37_Witness ==
    /\ pc = "killed" /\ run = 2
    /\ get_stats(Db(nuri_notices, scrap_log))
         = [total_notices |-> 1, successful |-> 1, failed |-> 1]
    /\ prev.failing

\* C38: a row of nuri_notices, once written, is neither changed nor removed
\* by anything a later step or run does, also when the upstream lists the id
\* again with other field values: the row keeps what the first successful
\* save of the id wrote.
C38_PersistedRowIsNeverRewritten ==
    [][ \A i \in 1..Len(nuri_notices) :
          /\ \E j \in 1..Len(nuri_notices') : nuri_notices'[j] = nuri_notices[i]
          /\ Count(nuri_notices', nuri_notices[i].notice_id) = 1
      ]_vars

C38_Witness ==
    /\ pc = "returned" /\ run = 2
    /\ extract_notices(upstream[1]) = <<[id |-> "a", title |-> "T2"]>>
    /\ stats.total_found = 1 /\ stats.total_skipped = 1
    /\ Len(nuri_notices) = 1
    /\ nuri_notices[1].notice_id = "a" /\ nuri_notices[1].title = "T"
    /\ nuri_notices[1].created_at = 1

\* TRUE when no id has two rows in either table of db
OneRowPerId(db) ==
    \A id \in Ids \cup {""} :
        /\ Count(db.nuri_notices, id) <= 1
        /\ Count(db.scrap_log, id) <= 1

\* C39: when the steps of two runs interleave on one store, so that both may
\* pass the checkpoint for an id before either has saved it, every id still
\* has at most one row in nuri_notices and at most one in scrap_log, in the
\* committed tables and in what every connection sees.
C39_OneRowPerIdUnderInterleaving ==
    /\ OneRowPerId(Db(nuri_notices, scrap_log))
    /\ \A c \in Workers : OneRowPerId(View(c))

\* Both runs passed the checkpoint for the same id and both saved it
C39_Witness ==
    /\ t_id[1] = t_id[2]
    /\ t_pc = [w \in Workers |-> "saved"]
    /\ Count(nuri_notices, t_id[1]) = 1
    /\ Count(scrap_log, t_id[1]) = 1
    /\ is_already_done(scrap_log, t_id[1])

====
